---- MODULE Spec2Model ----
(***************************************************************************)
(* Verification model of the shape synchronisation layer of the web app:   *)
(*   - the stream / shape caches of lib/electric-actions/electric-store,   *)
(*   - the optimistic writes createItem / deleteAll and matchStream,       *)
(*   - the Shape fold consumed by createShapeStore.                        *)
(***************************************************************************)
EXTENDS Integers, Sequences, FiniteSets, TLC

VARIABLES
    defs,         \* the two ShapeStreamOptions objects the callers pass
    streamCache,  \* Map<string, ShapeStream>: cache key -> stream id
    streams,      \* every ShapeStream constructed so far (id = index)
    shapeCache,   \* Map<ShapeStream, Shape>: stream id -> shape id
    shapes,       \* every Shape constructed so far (id = index)
    returned,     \* history: <<i, s>> when getShapeStream(defs[i]) returned stream s
    shapeReturned,\* history: <<s, p>> when getShape(stream s) returned Shape p
    streamCalls,  \* streamCalls[i]: number of getShapeStream(defs[i]) calls so far
    shapeCalls    \* number of getShape calls so far

cacheVars == <<defs, streamCache, streams, shapeCache, shapes, returned, shapeReturned,
               streamCalls, shapeCalls>>

VARIABLES
    calls,        \* the createItem / deleteAll / matchStream calls made so far
    subscribers,  \* subscribers[s]: the match listeners subscribed to stream s
    table,        \* server side: ids of the rows of the items table
    log,          \* the change messages the shape log of items holds
    cursor,       \* number of log messages the items stream has delivered
    localCursor   \* number of log messages synced into the page's local table

matchVars == <<calls, subscribers, table, log, cursor, localCursor>>

VARIABLES
    shape,        \* the Shape of the store: rows, isLoading, lastSyncedAt, error
    consumed,     \* every message the Shape has processed so far, in order
    store,        \* the $state of createShapeStore: data, isLoading, lastSyncedAt, error
    valuePromise, \* shape.value and its then / catch reaction
    window,       \* messages a reconnect still has to redeliver
    replay,       \* redelivery: the rows before it, and whether it has just completed
    errorCalls    \* history: subscriber invocations that found the Shape's error set

shapeVars == <<shape, consumed, store, valuePromise, window, replay, errorCalls>>

VARIABLES
    shapeSubscribers, \* the Shape's subscriber handles, in registration order
    dispatch,     \* notification round in progress: the handles still to visit
    notifying,    \* whether a notification round is in progress
    released,     \* handles whose unsubscribe has returned
    invocations,  \* invocations[h]: number of times the callback of h was invoked
    lateCalls,    \* history: handles invoked after their unsubscribe returned
    skipped,      \* history: handles a round passed over because they were released
    rounds        \* number of notification rounds started

notifyVars == <<shapeSubscribers, dispatch, notifying, released, invocations, lateCalls,
                skipped, rounds>>

VARIABLES
    serverLog,    \* the change log of the shape on the server; the offset is the index
    pull,         \* the pull loop: state, offset of the request in flight, cursor,
                  \* failures so far and (history) the cursor at the last failure
    closing,      \* close(): closed, number of calls, history of what it cut off
    emitted,      \* history: the offsets the stream has emitted, in order
    attached,     \* the consumers attached to the stream
    observedBy,   \* history: observedBy[c]: the offsets consumer c has observed, in order
    attachedAt,   \* history: attachedAt[c]: Len(emitted) when c attached (-1: never)
    streamShape   \* the Shape materialized from this stream

streamVars == <<serverLog, pull, closing, emitted, attached, observedBy, attachedAt, streamShape>>

VARIABLES
    serverItems,  \* server side: ids of the rows of the items table
    changes,      \* number of writes the server has made (the POSTs give the ids)
    db,           \* the PGlite database kept in IndexedDB: hasTable, primaryKey, rows
    session,      \* the page session: phase, number of restarts, transaction failures
    syncRows,     \* the row map (ids) of the Shape syncShapeToTable built
    inbox,        \* the notification batches the adapter still has to apply, in order
    tx,           \* the adapter's local transaction: open, working rows, statements left
    applied,      \* history: numbers of the batches committed in this session
    expected,     \* history: the local rows as of the last batch boundary
    page,         \* +page.svelte: whether the live query runs, and its items
    persisted     \* history: ids the local table held when the session started

syncVars == <<serverItems, changes, db, session, syncRows, inbox, tx, applied, expected,
              page, persisted>>

VARIABLES
    examplesTable,  \* the committed rows of the examples table, in insertion order
    processedPairs, \* the module-level Set of sentence pair keys
    run,            \* the insertExamplesBatch call: position, batch, chunk index,
                    \* retryCount, rows inserted by the open transaction, attempts
    batchCalls      \* number of insertExamplesBatch calls made by processExamples

importVars == <<examplesTable, processedPairs, run, batchCalls>>

VARIABLES
    serverDict,      \* the JMdict file the server holds: the gloss count of each
                     \* of its entries, <<>> until it is first fetched
    xmlFile,         \* temp/JMdict_e.xml: whether it exists, the entries it holds
    dictionaryTable, \* the committed rows of dictionary_entries
    meaningsTable,   \* the committed rows of meanings
    uuids,           \* number of ids uuid() has generated
    jm,              \* the JMdict import run: position, download outcome, parsed
                     \* entries, batch offset, prepared values, open transaction
    jmRuns           \* number of times the import script was started

jmdictVars == <<serverDict, xmlFile, dictionaryTable, meaningsTable, uuids, jm, jmRuns>>

VARIABLES
    kanjiFiles,  \* the temp directory of the KANJIDIC import: whether
                 \* kanjidic2.xml.gz exists, and kanjidic2.xml ("absent",
                 \* "partial" or "full")
    kanjiTable,  \* number of committed rows of kanji_entries
    kd,          \* the KANJIDIC import run: position, outcome of the extraction,
                 \* of the unlink and of downloadAndExtract, batch offset, exit
    kanjiRuns    \* number of times the import script was started

kanjiVars == <<kanjiFiles, kanjiTable, kd, kanjiRuns>>

VARIABLES
    loader,         \* which load() the app ships: "singleton" (module variable
                    \* pgliteInstance) or "fresh" (a PGlite per call); "none"
                    \* before the first call
    pgliteInstance, \* the module variable of the singleton load(): 0 is undefined
    instances,      \* number of PGlite instances created on IdbFs('my-database')
    tablePending,   \* instances whose createItemsTable is in flight
    tableReady,     \* instances whose createItemsTable has finished
    loads,          \* the load() calls: position, the instance created, the
                    \* instance returned, whether its table was ready on return
    mounts          \* the page components mounted so far: position of onMount,
                    \* alive or destroyed, the sync subscription, data.pglite

pageVars == <<loader, pgliteInstance, instances, tablePending, tableReady, loads, mounts>>

VARIABLES
    tempDir,     \* ./temp of the Tatoeba import: whether it exists, its files
    tm,          \* the Tatoeba import run: position, batches processed, whether
                 \* cleanup() was called, exit code
    tatoebaRuns  \* number of times the import script was started

tatoebaVars == <<tempDir, tm, tatoebaRuns>>

VARIABLES
    api,          \* which shapes route serves /api/shapes/:shapeSlug: "sveltekit"
                  \* (+server.ts) or "hono" (the api app); "none" before the
                  \* first request
    routeTable,   \* the ids of the rows of the server's items table
    response,     \* the last request and its answer: method, shapeSlug, status,
                  \* whether a statement reached the database, the table before
    requests      \* number of requests served

routeVars == <<api, routeTable, response, requests>>

laterVars ==
    <<notifyVars, streamVars, syncVars, importVars, jmdictVars, kanjiVars, pageVars,
      tatoebaVars, routeVars>>

vars == <<cacheVars, matchVars, shapeVars, laterVars>>

(***************************************************************************)
(* Bounds                                                                  *)
(***************************************************************************)
MaxStreamCalls == 3
MaxShapeCalls == 3
MaxMutations == 2
MaxMessages == 4
MaxRounds == 2
MaxLog == 2
MaxFailures == 1
MaxCloses == 2
MaxChanges == 3
MaxRestarts == 1
MaxTxFailures == 1
MaxBatchCalls == 1
MaxBatchLen == 3
MaxEntries == 3
MaxRuns == 2
MaxKanjiRuns == 2
MaxLoads == 2
MaxMounts == 2
MaxTatoebaRuns == 3
MaxExampleBatches == 2
MaxRequests == 3

Range(s) == {s[i] : i \in 1..Len(s)}

(***************************************************************************)
(* ShapeStreamOptions objects.  A JavaScript object is a sequence of       *)
(* properties in insertion order; a property value is a string or a nested *)
(* object (again a sequence of string-valued properties).                  *)
(***************************************************************************)
Urls == {"u1", "u2"}
Tables == {"a", "b"}

StrProp(k, v) == [key |-> k, isObj |-> FALSE, str |-> v, obj |-> <<>>]
ObjProp(k, o) == [key |-> k, isObj |-> TRUE, str |-> "", obj |-> o]

\* the nested objects: {} and {table: t}
NestedObjects == {<<>>} \cup {<<StrProp("table", t)>> : t \in Tables}

\* all orders of a set of properties with distinct keys
RECURSIVE Orders(_)
Orders(S) ==
    IF S = {} THEN {<<>>}
    ELSE UNION {{<<p>> \o rest : rest \in Orders(S \ {p})} : p \in S}

\* the property sets: url is required, the legacy top-level table and the
\* nested params object are optional
PropertySets ==
    UNION {
        {{StrProp("url", u)} \cup t \cup p :
            t \in {{}, {StrProp("table", "a")}},
            p \in {{}} \cup {{ObjProp("params", o)} : o \in NestedObjects}}
        : u \in Urls}

ShapeDefinitions == UNION {Orders(S) : S \in PropertySets}

(***************************************************************************)
(* sortedOptionsHash: JSON.stringify(options, Object.keys(options).sort()) *)
(***************************************************************************)
\* Array.prototype.sort() without comparator orders strings by code units;
\* these are the property names of the model in that order
KeyOrder == <<"params", "table", "url">>

ObjectKeys(o) == [i \in 1..Len(o) |-> o[i].key]

\* Object.keys(options).sort()
SortKeys(ks) == SelectSeq(KeyOrder, LAMBDA k : k \in Range(ks))

HasKey(o, k) == \E i \in 1..Len(o) : o[i].key = k
Get(o, k) == o[CHOOSE i \in 1..Len(o) : o[i].key = k]

\* JSON.stringify with an array replacer: the array is the property list of
\* EVERY object serialised, the nested ones included; properties are written
\* in the order of the list, and names not in the list are skipped.
\* The JSON text is modelled as its sequence of tokens.
RECURSIVE SerializeProps(_, _, _, _)
SerializeProps(o, list, i, first) ==
    IF i > Len(list) THEN <<>>
    ELSE IF ~HasKey(o, list[i]) THEN SerializeProps(o, list, i + 1, first)
    ELSE LET p == Get(o, list[i])
             val == IF p.isObj
                    THEN <<"{">> \o SerializeProps(p.obj, list, 1, TRUE) \o <<"}">>
                    ELSE <<"'", p.str, "'">>
         IN  (IF first THEN <<>> ELSE <<",">>) \o <<"'", p.key, "'", ":">> \o val
             \o SerializeProps(o, list, i + 1, FALSE)

JSONStringify(o, list) == <<"{">> \o SerializeProps(o, list, 1, TRUE) \o <<"}">>

\* faulty variant: the replacer lists the keys in insertion order (no sort)
sortedOptionsHashUnsorted(options) == JSONStringify(options, ObjectKeys(options))

sortedOptionsHash(options) == JSONStringify(options, SortKeys(ObjectKeys(options)))

(***************************************************************************)
(* getShapeStream / getShape                                               *)
(***************************************************************************)
\* faulty variant: constructs a stream on every call
getShapeStreamAlwaysNew(cache, strs, options) ==
    LET h == sortedOptionsHash(options)
        id == Len(strs) + 1
    IN  [cache |-> [k \in DOMAIN cache \cup {h} |-> IF k = h THEN id ELSE cache[k]],
         streams |-> Append(strs, [options |-> options]),
         ret |-> id]

\* faulty variant: caching a new stream evicts the streams cached before
getShapeStreamEvicts(cache, strs, options) ==
    LET h == sortedOptionsHash(options)
        id == Len(strs) + 1
    IN  IF h \notin DOMAIN cache
        THEN [cache |-> [k \in {h} |-> id],
              streams |-> Append(strs, [options |-> options]),
              ret |-> id]
        ELSE [cache |-> cache, streams |-> strs, ret |-> cache[h]]

getShapeStream(cache, strs, options) ==
    LET h == sortedOptionsHash(options)
        id == Len(strs) + 1
    IN  IF h \notin DOMAIN cache
        THEN [cache |-> [k \in DOMAIN cache \cup {h} |-> IF k = h THEN id ELSE cache[k]],
              streams |-> Append(strs, [options |-> options]),
              ret |-> id]
        ELSE [cache |-> cache, streams |-> strs, ret |-> cache[h]]

\* faulty variant: every stream shares the first Shape that was cached
getShapeSharedShape(cache, shps, stream) ==
    IF DOMAIN cache = {}
    THEN [cache |-> [s \in {stream} |-> Len(shps) + 1],
          shapes |-> Append(shps, [stream |-> stream]),
          ret |-> Len(shps) + 1]
    ELSE [cache |-> cache, shapes |-> shps, ret |-> 1]

getShape(cache, shps, stream) ==
    LET id == Len(shps) + 1
    IN  IF stream \notin DOMAIN cache
        THEN [cache |-> [s \in DOMAIN cache \cup {stream} |-> IF s = stream THEN id ELSE cache[s]],
              shapes |-> Append(shps, [stream |-> stream]),
              ret |-> id]
        ELSE [cache |-> cache, shapes |-> shps, ret |-> cache[stream]]

(***************************************************************************)
(* The cache as a state machine: callers pass defs[1] or defs[2]           *)
(***************************************************************************)
EmptyMap == [x \in {} |-> 0]

InitMatchVars ==
    /\ calls = <<>>
    /\ subscribers = <<>>
    /\ table = {}
    /\ log = <<>>
    /\ cursor = 0
    /\ localCursor = 0

InitShapeVars ==
    /\ shape = [rows |-> <<>>, isLoading |-> TRUE, lastSyncedAt |-> 0, error |-> "null"]
    /\ consumed = <<>>
    /\ store = [data |-> <<>>, isLoading |-> TRUE, lastSyncedAt |-> 0, error |-> "null",
                init |-> FALSE]
    /\ valuePromise = "none"
    /\ window = <<>>
    /\ replay = [before |-> <<>>, done |-> FALSE]
    /\ errorCalls = 0

InitCacheVars ==
    /\ streamCache = EmptyMap
    /\ streams = <<>>
    /\ shapeCache = EmptyMap
    /\ shapes = <<>>
    /\ returned = {}
    /\ shapeReturned = {}
    /\ streamCalls = <<0, 0>>
    /\ shapeCalls = 0

Handles == {1, 2, 3}

InitNotifyVars ==
    /\ shapeSubscribers = <<>>
    /\ dispatch = <<>>
    /\ notifying = FALSE
    /\ released = {}
    /\ invocations = [h \in Handles |-> 0]
    /\ lateCalls = {}
    /\ skipped = {}
    /\ rounds = 0

Consumers == {"shape", "listener"}

\* a stream just constructed, with its Shape attached
InitStreamVars ==
    /\ serverLog = <<>>
    /\ pull = [state |-> "idle", offset |-> 0, cursor |-> 0, failures |-> 0, failedAt |-> -1]
    /\ closing = [closed |-> FALSE, calls |-> 0, emittedAtClose |-> 0, discarded |-> 0]
    /\ emitted = <<>>
    /\ attached = {"shape"}
    /\ observedBy = [c \in Consumers |-> <<>>]
    /\ attachedAt = [c \in Consumers |-> IF c = "shape" THEN 0 ELSE -1]
    /\ streamShape = [rows |-> <<>>, isLoading |-> TRUE, lastSyncedAt |-> 0, error |-> "null"]

\* a browser with no database yet
InitSyncVars ==
    /\ serverItems = {}
    /\ changes = 0
    /\ db = [hasTable |-> FALSE, primaryKey |-> FALSE, rows |-> <<>>]
    /\ session = [phase |-> "none", restarts |-> 0, txFailures |-> 0]
    /\ syncRows = {}
    /\ inbox = <<>>
    /\ tx = [open |-> FALSE, rows |-> <<>>, todo |-> <<>>]
    /\ applied = <<>>
    /\ expected = <<>>
    /\ page = [live |-> FALSE, items |-> <<>>]
    /\ persisted = {}

\* the import script has cleared the examples table and made no call yet
InitImportVars ==
    /\ examplesTable = <<>>
    /\ processedPairs = {}
    /\ run = [pc |-> "idle", batch |-> <<>>, i |-> 0, retryCount |-> 0, txRows |-> <<>>,
              attempts |-> 0]
    /\ batchCalls = 0

\* the JMdict import has never run: no temp directory, empty tables
InitJmdictVars ==
    /\ serverDict = <<>>
    /\ xmlFile = [exists |-> FALSE, entries |-> <<>>]
    /\ dictionaryTable = {}
    /\ meaningsTable = {}
    /\ uuids = 0
    /\ jm = [pc |-> "ended", exitCode |-> "none", download |-> "pending", entries |-> <<>>,
             i |-> 0, batchNo |-> 0, dictionaryValues |-> <<>>, meaningValues |-> <<>>,
             entriesInserted |-> FALSE, j |-> 0, txDict |-> {}, txMeanings |-> {},
             parsed |-> 0, inserted |-> 0]
    /\ jmRuns = 0

\* the KANJIDIC import has never run
InitKanjiVars ==
    /\ kanjiFiles = [gz |-> FALSE, xml |-> "absent"]
    /\ kanjiTable = 0
    /\ kd = [pc |-> "ended", extraction |-> "none", unlink |-> "none", outcome |-> "none",
             i |-> 0, exitCode |-> "none"]
    /\ kanjiRuns = 0

\* the app has just been opened: no load() call yet, no page mounted
InitPageVars ==
    /\ loader = "none"
    /\ pgliteInstance = 0
    /\ instances = 0
    /\ tablePending = {}
    /\ tableReady = {}
    /\ loads = <<>>
    /\ mounts = <<>>

\* the Tatoeba import has never run
InitTatoebaVars ==
    /\ tempDir = [exists |-> FALSE, files |-> {}]
    /\ tm = [pc |-> "ended", i |-> 0, cleanupCalled |-> FALSE, exitCode |-> "none"]
    /\ tatoebaRuns = 0

\* the server has started: empty items table, no request yet
InitRouteVars ==
    /\ api = "none"
    /\ routeTable = {}
    /\ response = [method |-> "none", shapeSlug |-> "none", status |-> 0,
                   touched |-> FALSE, before |-> {}]
    /\ requests = 0

InitLaterVars ==
    /\ InitNotifyVars
    /\ InitStreamVars
    /\ InitSyncVars
    /\ InitImportVars
    /\ InitJmdictVars
    /\ InitKanjiVars
    /\ InitPageVars
    /\ InitTatoebaVars
    /\ InitRouteVars

\* itemShape(): the definition createItem and deleteAll pass
itemShape == <<StrProp("url", "u1")>>

\* cache keys: the callers pass any two definitions
InitKey ==
    /\ defs \in ShapeDefinitions \X ShapeDefinitions
    /\ InitCacheVars
    /\ InitMatchVars
    /\ InitShapeVars
    /\ InitLaterVars

\* both caches: one caller passes itemShape(), the other any definition
InitCache ==
    /\ defs \in {itemShape} \X ShapeDefinitions
    /\ InitCacheVars
    /\ InitMatchVars
    /\ InitShapeVars
    /\ InitLaterVars

\* a caller invokes getShapeStream(defs[i]); the function has no suspension
\* point, so the call runs to completion before any other code of the tick
GetShapeStreamCall(i) ==
    /\ streamCalls[1] + streamCalls[2] < MaxStreamCalls
    /\ LET r == getShapeStream(streamCache, streams, defs[i])
       IN  /\ streamCache' = r.cache
           /\ streams' = r.streams
           /\ returned' = returned \cup {<<i, r.ret>>}
    /\ streamCalls' = [streamCalls EXCEPT ![i] = @ + 1]
    /\ UNCHANGED <<defs, shapeCache, shapes, shapeReturned, shapeCalls>>
    /\ UNCHANGED <<matchVars, shapeVars, laterVars>>

\* a caller invokes getShape(s) with a stream it got from getShapeStream
GetShapeCall(s) ==
    /\ shapeCalls < MaxShapeCalls
    /\ s \in 1..Len(streams)
    /\ LET r == getShape(shapeCache, shapes, s)
       IN  /\ shapeCache' = r.cache
           /\ shapes' = r.shapes
           /\ shapeReturned' = shapeReturned \cup {<<s, r.ret>>}
    /\ shapeCalls' = shapeCalls + 1
    /\ UNCHANGED <<defs, streamCache, streams, returned, streamCalls>>
    /\ UNCHANGED <<matchVars, shapeVars, laterVars>>

NextCache ==
    \/ \E i \in 1..2 : GetShapeStreamCall(i)
    \/ \E s \in 1..2 : GetShapeCall(s)

NextKey == \E i \in 1..2 : GetShapeStreamCall(i)

SpecKey == InitKey /\ [][NextKey]_vars

SpecCache == InitCache /\ [][NextCache]_vars

(***************************************************************************)
(* Equivalence of definitions, independent of insertion order: a           *)
(* definition read as the mapping from property names to values            *)
(***************************************************************************)
NestedMap(o) == [k \in Range(ObjectKeys(o)) |-> Get(o, k).str]

Canonical(d) ==
    [k \in Range(ObjectKeys(d)) |->
        [isObj |-> Get(d, k).isObj, str |-> Get(d, k).str, obj |-> NestedMap(Get(d, k).obj)]]

Equivalent(d1, d2) == Canonical(d1) = Canonical(d2)

StreamsWithKey(h) == {s \in 1..Len(streams) : sortedOptionsHash(streams[s].options) = h}

\* C1: exactly one ShapeStream is constructed per distinct cache key, however
\* many calls with that key are made in a tick, and every call with that key
\* returns that one instance.
C1_OneStreamPerKey ==
    /\ \A s \in 1..Len(streams) : sortedOptionsHash(streams[s].options) \in DOMAIN streamCache
    /\ \A h \in DOMAIN streamCache : Cardinality(StreamsWithKey(h)) = 1
    /\ \A x \in returned, y \in returned :
          sortedOptionsHash(defs[x[1]]) = sortedOptionsHash(defs[y[1]]) => x[2] = y[2]
    /\ \A i \in 1..2 :
          streamCalls[i] > 0 => Cardinality(StreamsWithKey(sortedOptionsHash(defs[i]))) = 1

C1_Witness ==
    /\ streamCalls[1] >= 3
    /\ Len(streams) = 1
    /\ returned = {<<1, 1>>}

\* C2: definitions with the same properties and values, built in a different
\* insertion order, get the same cache key and resolve to the same stream.
C2_OrderInvariantKey ==
    \A i \in 1..2, j \in 1..2 :
        Equivalent(defs[i], defs[j]) =>
            /\ sortedOptionsHash(defs[i]) = sortedOptionsHash(defs[j])
            /\ \A x \in returned, y \in returned : (x[1] = i /\ y[1] = j) => x[2] = y[2]

C2_Witness ==
    /\ defs[1] # defs[2]
    /\ Equivalent(defs[1], defs[2])
    /\ Len(defs[1]) = 3
    /\ <<1, 1>> \in returned
    /\ <<2, 1>> \in returned

\* C3: definitions that differ in the value of some field, a field of a nested
\* object included, get different cache keys and never resolve to one stream.
C3_KeySeparatesDefinitions ==
    \A x \in returned, y \in returned :
        ~Equivalent(defs[x[1]], defs[y[1]]) => x[2] # y[2]

\* C4: one Shape per distinct ShapeStream instance; the same stream always
\* gets the same Shape and two distinct streams never share a Shape.
C4_OneShapePerStream ==
    /\ Len(shapes) = Cardinality(DOMAIN shapeCache)
    /\ \A s \in DOMAIN shapeCache :
          Cardinality({p \in 1..Len(shapes) : shapes[p].stream = s}) = 1
    /\ \A x \in shapeReturned, y \in shapeReturned : (x[1] = y[1]) <=> (x[2] = y[2])
    /\ \A x \in shapeReturned : shapes[x[2]].stream = x[1]

C4_Witness ==
    /\ shapeCalls >= 3
    /\ Len(streams) = 2
    /\ shapeReturned = {<<1, 1>>, <<2, 2>>}

(***************************************************************************)
(* Optimistic writes: createItem / deleteAll, matchStream, the shapes      *)
(* route of the server and the items stream                                *)
(***************************************************************************)
ItemsStream == streamCache[sortedOptionsHash(itemShape)]

\* matchFn of the call: createItem compares message.value.id with item.id,
\* deleteAll takes any message with a value, a direct matchStream call any
matchFn(call, m) == IF call.kind = "createItem" THEN m.key = call.item ELSE TRUE

Matches(call, m) == m.op \in call.ops /\ matchFn(call, m)

\* matchStream: subscribes the temporary listener of call c to the stream when
\* it is called; a timer is armed only for a caller-specified bound
matchStream(subs, stream, c, hasBound) ==
    [subscribers |-> [subs EXCEPT ![stream] = @ \cup {c}],
     timer |-> IF hasBound THEN "armed" ELSE "none"]

\* the listener is removed when its call matched
finishMatch(listening, matched) == listening \ matched

\* faulty variant: the timeout path leaves the listener subscribed
finishTimeoutKeepsListener(listening, c) == listening

\* the listener is removed when its timer fired
finishTimeout(listening, c) == listening \ {c}

\* await Promise.all([findUpdatePromise, fetchPromise]): rejected as soon as
\* fetch rejects, resolved once the match has settled and the response is in;
\* a direct matchStream call settles with its match alone
Settle(call) ==
    IF call.outcome # "pending" THEN call
    ELSE IF call.kind = "matchStream"
         THEN [call EXCEPT !.outcome = IF call.match # "pending" THEN "resolved" ELSE "pending"]
    ELSE IF call.http = "failed" THEN [call EXCEPT !.outcome = "rejected"]
    ELSE IF call.match # "pending" /\ call.http = "arrived"
         THEN [call EXCEPT !.outcome = "resolved"]
    ELSE call

NewCall(kind, item, ops, timer, http, sentListening) ==
    [kind |-> kind, item |-> item, ops |-> ops, match |-> "pending", timer |-> timer,
     http |-> http, status |-> 0, outcome |-> "pending",
     sentListening |-> sentListening, events |-> <<>>]

\* the subscriber sets, one per constructed stream
SubscribersOf(subs, strs) == IF Len(strs) > Len(subs) THEN Append(subs, {}) ELSE subs

\* faulty variant: createItem waits for an update message
createItemOperationsUpdate == {"update"}

createItemOperations == {"insert"}
deleteAllOperations == {"delete"}

\* faulty variant: the write is issued before matchStream is called
writeThenListen(kind, ops, c) ==
    LET r == getShapeStream(streamCache, streams, itemShape)
        before == SubscribersOf(subscribers, r.streams)
        ms == matchStream(before, r.ret, c, FALSE)
    IN  [cache |-> r.cache, streams |-> r.streams, subscribers |-> ms.subscribers,
         call |-> NewCall(kind, c, ops, ms.timer, "request", c \in before[r.ret])]

\* the body of createItem / deleteAll up to the await: getShapeStream,
\* matchStream (no timeout option is passed), then fetch
listenThenWrite(kind, ops, c) ==
    LET r == getShapeStream(streamCache, streams, itemShape)
        ms == matchStream(SubscribersOf(subscribers, r.streams), r.ret, c, FALSE)
    IN  [cache |-> r.cache, streams |-> r.streams, subscribers |-> ms.subscribers,
         call |-> NewCall(kind, c, ops, ms.timer, "request", c \in ms.subscribers[r.ret])]

Begin(r) ==
    /\ streamCache' = r.cache
    /\ streams' = r.streams
    /\ subscribers' = r.subscribers
    /\ calls' = Append(calls, r.call)
    /\ UNCHANGED <<defs, shapeCache, shapes, returned, shapeReturned, streamCalls, shapeCalls>>
    /\ UNCHANGED <<table, log, cursor, localCursor>>
    /\ UNCHANGED <<shapeVars, laterVars>>

\* the rows of the page's local table: the fold of the synced log prefix
RECURSIVE FoldKeys(_, _)
FoldKeys(msgs, n) ==
    IF n = 0 THEN {}
    ELSE IF msgs[n].op = "delete" THEN FoldKeys(msgs, n - 1) \ {msgs[n].key}
    ELSE FoldKeys(msgs, n - 1) \cup {msgs[n].key}

items == FoldKeys(log, localCursor)

\* Add button: createItem with a fresh uuid (the call number stands for it)
CreateItemCall ==
    /\ Len(calls) < MaxMutations
    /\ Begin(listenThenWrite("createItem", createItemOperations, Len(calls) + 1))

\* Delete All button: returns when the page lists no items
DeleteAllClick ==
    /\ Len(calls) < MaxMutations
    /\ items # {}
    /\ Begin(listenThenWrite("deleteAll", deleteAllOperations, Len(calls) + 1))

\* matchStream called on the items stream with a caller-specified bound
MatchStreamCall ==
    /\ Len(calls) < MaxMutations
    /\ LET c == Len(calls) + 1
           r == getShapeStream(streamCache, streams, itemShape)
           ms == matchStream(SubscribersOf(subscribers, r.streams), r.ret, c, TRUE)
       IN  Begin([cache |-> r.cache, streams |-> r.streams, subscribers |-> ms.subscribers,
                  call |-> NewCall("matchStream", c, {"insert", "delete"}, ms.timer, "none", TRUE)])

\* the delete messages of one DELETE; cause names the call whose write made them
RECURSIVE DeleteMessages(_, _)
DeleteMessages(rows, c) ==
    IF rows = {} THEN <<>>
    ELSE LET k == CHOOSE x \in rows : \A y \in rows : x <= y
         IN  <<[op |-> "delete", key |-> k, cause |-> c]>> \o DeleteMessages(rows \ {k}, c)

Respond(c, status) ==
    calls' = [calls EXCEPT ![c] = [@ EXCEPT !.http = "response", !.status = status]]

\* POST /api/shapes/items: insert in a transaction, 200; 500 when it throws
POST(c, dbOk) ==
    /\ c \in 1..Len(calls)
    /\ calls[c].kind = "createItem" /\ calls[c].http = "request"
    /\ IF dbOk /\ calls[c].item \notin table
       THEN /\ table' = table \cup {calls[c].item}
            /\ log' = Append(log, [op |-> "insert", key |-> calls[c].item, cause |-> c])
            /\ Respond(c, 200)
       ELSE /\ UNCHANGED <<table, log>>
            /\ Respond(c, 500)
    /\ UNCHANGED <<cacheVars, shapeVars, subscribers, cursor, localCursor, laterVars>>

\* DELETE /api/shapes/items: delete every row, 200; 500 when it throws
DELETE(c, dbOk) ==
    /\ c \in 1..Len(calls)
    /\ calls[c].kind = "deleteAll" /\ calls[c].http = "request"
    /\ IF dbOk
       THEN /\ table' = {}
            /\ log' = log \o DeleteMessages(table, c)
            /\ Respond(c, 200)
       ELSE /\ UNCHANGED <<table, log>>
            /\ Respond(c, 500)
    /\ UNCHANGED <<cacheVars, shapeVars, subscribers, cursor, localCursor, laterVars>>

\* the fetch promise resolves with the response, whatever its status
ResponseArrives(c) ==
    /\ c \in 1..Len(calls)
    /\ calls[c].http = "response"
    /\ calls' = [calls EXCEPT ![c] =
                    Settle([@ EXCEPT !.http = "arrived", !.events = Append(@, "response")])]
    /\ UNCHANGED <<cacheVars, shapeVars, subscribers, table, log, cursor, localCursor, laterVars>>

\* the fetch promise rejects: the request or the response is lost
FetchFails(c) ==
    /\ c \in 1..Len(calls)
    /\ calls[c].http \in {"request", "response"}
    /\ calls' = [calls EXCEPT ![c] = Settle([@ EXCEPT !.http = "failed"])]
    /\ UNCHANGED <<cacheVars, shapeVars, subscribers, table, log, cursor, localCursor, laterVars>>

\* the items stream hands the next n log messages, as one batch, to every
\* subscriber; a listener whose call matches a message of the batch finishes
Deliver(n) ==
    /\ Len(streams) >= 1
    /\ n >= 1 /\ cursor + n <= Len(log)
    /\ LET batch == SubSeq(log, cursor + 1, cursor + n)
           listening == subscribers[ItemsStream]
           matched == {c \in listening : \E i \in 1..n : Matches(calls[c], batch[i])}
           own(c) == /\ calls[c].kind = "createItem"
                     /\ \E i \in 1..n : batch[i].op = "insert" /\ batch[i].key = calls[c].item
       IN  /\ subscribers' = [subscribers EXCEPT ![ItemsStream] = finishMatch(listening, matched)]
           /\ calls' = [c \in 1..Len(calls) |->
                 LET seen == IF own(c) THEN [calls[c] EXCEPT !.events = Append(@, "message")]
                             ELSE calls[c]
                 IN  IF c \in matched
                     THEN Settle([seen EXCEPT !.match = "matched",
                                              !.timer = IF @ = "armed" THEN "cleared" ELSE @])
                     ELSE seen]
    /\ cursor' = cursor + n
    /\ UNCHANGED <<cacheVars, shapeVars, table, log, localCursor, laterVars>>

\* the bound of a matchStream call elapses before a match
TimerFires(c) ==
    /\ c \in 1..Len(calls)
    /\ calls[c].timer = "armed" /\ calls[c].match = "pending"
    /\ subscribers' = [subscribers EXCEPT ![ItemsStream] = finishTimeout(@, c)]
    /\ calls' = [calls EXCEPT ![c] = Settle([@ EXCEPT !.match = "timeout", !.timer = "fired"])]
    /\ UNCHANGED <<cacheVars, shapeVars, table, log, cursor, localCursor, laterVars>>

\* syncShapeToTable applies the next change to the page's local items table
SyncLocal ==
    /\ localCursor < Len(log)
    /\ localCursor' = localCursor + 1
    /\ UNCHANGED <<cacheVars, shapeVars, calls, subscribers, table, log, cursor, laterVars>>

\* every caller passes itemShape(); nothing has run yet
InitItems ==
    /\ defs = <<itemShape, itemShape>>
    /\ InitCacheVars
    /\ InitMatchVars
    /\ InitShapeVars
    /\ InitLaterVars

NextMatch ==
    \/ CreateItemCall
    \/ DeleteAllClick
    \/ MatchStreamCall
    \/ \E c \in 1..MaxMutations, dbOk \in BOOLEAN : POST(c, dbOk)
    \/ \E c \in 1..MaxMutations, dbOk \in BOOLEAN : DELETE(c, dbOk)
    \/ \E c \in 1..MaxMutations : ResponseArrives(c)
    \/ \E c \in 1..MaxMutations : FetchFails(c)
    \/ \E n \in 1..MaxMutations : Deliver(n)
    \/ \E c \in 1..MaxMutations : TimerFires(c)
    \/ SyncLocal

SpecMatch == InitItems /\ [][NextMatch]_vars

Writers == {c \in 1..Len(calls) : calls[c].kind \in {"createItem", "deleteAll"}}

Listening(c) == Len(streams) >= 1 /\ c \in subscribers[ItemsStream]

Undelivered == (cursor + 1)..Len(log)

\* C5: createItem and deleteAll register the matchStream listener before they
\* issue the write, so whenever a change message caused by the write is still
\* to be delivered the listener is subscribed (or its wait has already ended).
C5_ListenerBeforeWrite ==
    /\ \A c \in Writers : calls[c].sentListening
    /\ \A i \in Undelivered :
          calls[log[i].cause].match = "pending" => Listening(log[i].cause)

C5_Witness ==
    \E i \in Undelivered :
        /\ calls[log[i].cause].kind = "deleteAll"
        /\ calls[log[i].cause].sentListening
        /\ Listening(log[i].cause)

InsertDelivered(c) ==
    \E i \in 1..cursor : log[i].op = "insert" /\ log[i].key = calls[c].item

\* C6: createItem resolves exactly when both the insert message with its key
\* and the HTTP response have arrived, in either order; the match is not
\* missed when the message is delivered before the response.
C6_ResolvesOnceBothArrived ==
    \A c \in 1..Len(calls) :
        calls[c].kind = "createItem" =>
            /\ InsertDelivered(c) => calls[c].match = "matched"
            /\ calls[c].outcome = "resolved" <=>
                  (InsertDelivered(c) /\ calls[c].http = "arrived")

C6_Witness ==
    \E c \in 1..Len(calls), d \in 1..Len(calls) :
        /\ calls[c].kind = "createItem" /\ calls[d].kind = "createItem"
        /\ calls[c].events = <<"message", "response">> /\ calls[c].outcome = "resolved"
        /\ calls[d].events = <<"response", "message">> /\ calls[d].outcome = "resolved"

\* the wait of call c can no longer end: the write has been answered, no
\* undelivered message matches and no timer is armed
Hung(c) ==
    /\ calls[c].match = "pending"
    /\ calls[c].http = "arrived"
    /\ \A i \in Undelivered : ~Matches(calls[c], log[i])
    /\ calls[c].timer # "armed"

\* C7: the wait started by createItem / deleteAll never hangs: when no matching
\* message arrives it ends with a timeout outcome.
C7_WaitEndsWithTimeout == \A c \in Writers : ~Hung(c)

\* C8 as stated: a settled matchStream call holds no listener, and the number
\* of match listeners on the items stream equals the number of pending calls.
C8_ListenersEqualPendingCalls ==
    /\ \A c \in 1..Len(calls) : calls[c].match # "pending" => ~Listening(c)
    /\ Len(streams) >= 1 =>
          Cardinality(subscribers[ItemsStream]) =
          Cardinality({c \in 1..Len(calls) : calls[c].outcome = "pending"})

\* C8 amended: the listener is removed on the match path and on the timeout
\* path, so the listeners on the items stream are exactly the calls whose
\* matchStream promise has not settled.
C8_ListenersAreUnsettledMatches ==
    /\ Len(streams) = 0 => calls = <<>>
    /\ Len(streams) >= 1 =>
          subscribers[ItemsStream] = {c \in 1..Len(calls) : calls[c].match = "pending"}

C8_Witness ==
    \E c \in 1..Len(calls), d \in 1..Len(calls) :
        /\ calls[c].match = "matched" /\ calls[c].outcome = "pending" /\ ~Listening(c)
        /\ calls[d].match = "timeout" /\ ~Listening(d)

(***************************************************************************)
(* The Shape fold and createShapeStore                                     *)
(***************************************************************************)
Keys == {1, 2}
Fields == {"name", "status"}

\* a row value; "-" marks a field the value does not carry
NoValue == [name |-> "-", status |-> "-"]
InsertValues == {[name |-> "A", status |-> "-"]}
UpdateValues == {[name |-> "B", status |-> "-"], [name |-> "-", status |-> "x"]}

UpToDate == [op |-> "up-to-date", key |-> 0, value |-> NoValue]
MustRefetch == [op |-> "must-refetch", key |-> 0, value |-> NoValue]

ChangeMessages ==
    {[op |-> "insert", key |-> k, value |-> v] : k \in Keys, v \in InsertValues}
    \cup {[op |-> "update", key |-> k, value |-> v] : k \in Keys, v \in UpdateValues}
    \cup {[op |-> "delete", key |-> k, value |-> NoValue] : k \in Keys}

Messages == ChangeMessages \cup {UpToDate, MustRefetch}

\* the batches a network frame carries: one message, or a change followed
\* by the up-to-date control message
Batches == {<<msg>> : msg \in Messages} \cup {<<msg, UpToDate>> : msg \in ChangeMessages}

\* the row map: a Map, i.e. its entries in insertion order
MapHas(rows, k) == \E i \in 1..Len(rows) : rows[i].key = k
MapGet(rows, k) == rows[CHOOSE i \in 1..Len(rows) : rows[i].key = k].value
MapSet(rows, k, v) ==
    IF MapHas(rows, k)
    THEN [i \in 1..Len(rows) |-> IF rows[i].key = k THEN [key |-> k, value |-> v] ELSE rows[i]]
    ELSE Append(rows, [key |-> k, value |-> v])
MapDelete(rows, k) == SelectSeq(rows, LAMBDA e : e.key # k)
MapValues(rows) == [i \in 1..Len(rows) |-> rows[i].value]

\* the changed fields of new over the fields of old
Merge(old, new) == [f \in Fields |-> IF new[f] # "-" THEN new[f] ELSE old[f]]

\* insert: a key that exists already is treated as an update
processInsert(rows, k, v) ==
    IF MapHas(rows, k) THEN MapSet(rows, k, Merge(MapGet(rows, k), v)) ELSE MapSet(rows, k, v)

\* faulty variant: an update of an absent key is dropped
processUpdateDropsAbsent(rows, k, v) ==
    IF MapHas(rows, k) THEN MapSet(rows, k, Merge(MapGet(rows, k), v)) ELSE rows

\* update: merges the changed fields; an absent key is promoted to an insert
processUpdate(rows, k, v) ==
    IF MapHas(rows, k) THEN MapSet(rows, k, Merge(MapGet(rows, k), v)) ELSE MapSet(rows, k, v)

\* delete: removes the key; an absent key is a no-op
processDelete(rows, k) == MapDelete(rows, k)

\* the Shape folds one message; now is the time of the fold
process(sh, msg, now) ==
    IF msg.op = "insert" THEN [sh EXCEPT !.rows = processInsert(@, msg.key, msg.value)]
    ELSE IF msg.op = "update" THEN [sh EXCEPT !.rows = processUpdate(@, msg.key, msg.value)]
    ELSE IF msg.op = "delete" THEN [sh EXCEPT !.rows = processDelete(@, msg.key)]
    ELSE IF msg.op = "up-to-date" THEN [sh EXCEPT !.isLoading = FALSE, !.lastSyncedAt = now]
    ELSE [sh EXCEPT !.rows = <<>>, !.isLoading = TRUE]

RECURSIVE processBatch(_, _, _)
processBatch(sh, batch, now) ==
    IF batch = <<>> THEN sh
    ELSE processBatch(process(sh, Head(batch), now + 1), Tail(batch), now + 1)

\* faulty variant: the subscriber does not refresh data
subscriberKeepsData(st, sh) ==
    [st EXCEPT !.isLoading = sh.isLoading, !.lastSyncedAt = sh.lastSyncedAt, !.error = sh.error]

\* faulty variant: the subscriber does not copy the error
subscriberDropsError(st, sh) ==
    [st EXCEPT !.data = MapValues(sh.rows), !.isLoading = sh.isLoading,
               !.lastSyncedAt = sh.lastSyncedAt]

\* faulty variant: the subscriber does not refresh isLoading
subscriberKeepsLoading(st, sh) ==
    [st EXCEPT !.data = MapValues(sh.rows), !.lastSyncedAt = sh.lastSyncedAt, !.error = sh.error]

\* the callback createShapeStore passes to shape.subscribe
subscriber(st, sh) ==
    [st EXCEPT !.data = MapValues(sh.rows), !.isLoading = sh.isLoading,
               !.lastSyncedAt = sh.lastSyncedAt, !.error = sh.error]

\* shape.value.then(...)
onValue(st, sh) ==
    [st EXCEPT !.data = MapValues(sh.rows), !.isLoading = FALSE,
               !.lastSyncedAt = sh.lastSyncedAt, !.error = "null"]

\* faulty variant: the catch reaction does not store the rejection
onValueErrorDropsError(st, e) == [st EXCEPT !.data = <<>>, !.isLoading = FALSE, !.error = "null"]

\* shape.value ... .catch((e) => ...)
onValueError(st, e) == [st EXCEPT !.data = <<>>, !.isLoading = FALSE, !.error = e]

\* a promise reaction is queued: it runs before the next message is handled
ReactionQueued == valuePromise \in {"fulfilled", "rejected"}

\* shape.value settles with the first notification: fulfilled once the Shape
\* is up to date, rejected on its terminal error
settleValue(vp, sh) ==
    IF vp # "pending" THEN vp
    ELSE IF sh.error # "null" THEN "rejected"
    ELSE IF ~sh.isLoading THEN "fulfilled"
    ELSE "pending"

\* store.init(): getShapeStream, getShape, subscribe, shape.value
StoreInit ==
    /\ ~store.init
    /\ LET r == getShapeStream(streamCache, streams, defs[1])
           q == getShape(shapeCache, shapes, r.ret)
       IN  /\ streamCache' = r.cache
           /\ streams' = r.streams
           /\ shapeCache' = q.cache
           /\ shapes' = q.shapes
    /\ store' = [store EXCEPT !.init = TRUE]
    /\ valuePromise' = "pending"
    /\ UNCHANGED <<defs, returned, shapeReturned, streamCalls, shapeCalls>>
    /\ UNCHANGED <<matchVars, shape, consumed, window, replay, errorCalls, laterVars>>

Live == store.init /\ shape.error = "null" /\ ~ReactionQueued

\* the Shape folds the messages of one batch and then notifies its subscribers
Fold(batch) ==
    /\ shape' = processBatch(shape, batch, Len(consumed))
    /\ consumed' = consumed \o batch
    /\ store' = subscriber(store, shape')
    /\ errorCalls' = errorCalls + (IF shape'.error # "null" THEN 1 ELSE 0)
    /\ valuePromise' = settleValue(valuePromise, shape')

\* the stream delivers a batch of new messages
Consume(batch) ==
    /\ Live /\ window = <<>>
    /\ Len(consumed) + Len(batch) <= MaxMessages
    /\ Fold(batch)
    /\ replay' = [replay EXCEPT !.done = FALSE]
    /\ UNCHANGED <<cacheVars, matchVars, window, laterVars>>

\* the stream reconnects and will redeliver the last w messages
Reconnect(w) ==
    /\ Live /\ window = <<>>
    /\ w <= Len(consumed)
    /\ Len(consumed) + w <= MaxMessages
    /\ window' = SubSeq(consumed, Len(consumed) - w + 1, Len(consumed))
    /\ replay' = [before |-> shape.rows, done |-> FALSE]
    /\ UNCHANGED <<cacheVars, matchVars, shape, consumed, store, valuePromise, errorCalls,
                   laterVars>>

\* the next message of the redelivered window arrives
Redeliver ==
    /\ Live /\ window # <<>>
    /\ Fold(<<Head(window)>>)
    /\ window' = Tail(window)
    /\ replay' = [replay EXCEPT !.done = (Tail(window) = <<>>)]
    /\ UNCHANGED <<cacheVars, matchVars, laterVars>>

\* a terminal error: the Shape records it and notifies its subscribers
ShapeFails ==
    /\ Live
    /\ shape' = [shape EXCEPT !.error = "error"]
    /\ store' = subscriber(store, shape')
    /\ errorCalls' = errorCalls + 1
    /\ valuePromise' = settleValue(valuePromise, shape')
    /\ UNCHANGED <<cacheVars, matchVars, consumed, window, replay, laterVars>>

\* the then reaction of shape.value runs
ValueThen ==
    /\ valuePromise = "fulfilled"
    /\ store' = onValue(store, shape)
    /\ valuePromise' = "settled"
    /\ UNCHANGED <<cacheVars, matchVars, shape, consumed, window, replay, errorCalls,
                   laterVars>>

\* the catch reaction of shape.value runs
ValueCatch ==
    /\ valuePromise = "rejected"
    /\ store' = onValueError(store, shape.error)
    /\ valuePromise' = "settled"
    /\ UNCHANGED <<cacheVars, matchVars, shape, consumed, window, replay, errorCalls,
                   laterVars>>

NextShape ==
    \/ StoreInit
    \/ \E batch \in Batches : Consume(batch)
    \/ \E w \in 1..MaxMessages : Reconnect(w)
    \/ Redeliver
    \/ ShapeFails
    \/ ValueThen
    \/ ValueCatch

SpecShape == InitItems /\ [][NextShape]_vars

RowMap(rows) == [k \in {rows[i].key : i \in 1..Len(rows)} |-> MapGet(rows, k)]

NoDuplicateKeys(rows) == \A i \in 1..Len(rows), j \in 1..Len(rows) : rows[i].key = rows[j].key => i = j

\* C9: folding is idempotent under redelivery: once a reconnect has redelivered
\* a window of messages the Shape had already applied, the row map is the one
\* it was before the redelivery, and no key is held twice.
C9_RedeliveryIdempotent ==
    replay.done => (RowMap(shape.rows) = RowMap(replay.before) /\ NoDuplicateKeys(shape.rows))

C9_Witness ==
    /\ replay.done
    /\ Len(consumed) = 4
    /\ consumed[3].op = "update" /\ consumed[4].op = "insert"
    /\ consumed[3].key = consumed[4].key
    /\ Len(shape.rows) = 1

Max(S) == CHOOSE x \in S : \A y \in S : y <= x

\* the last message at or before which key k left the map
LastDelete(lg, k) ==
    Max({0} \cup {i \in 1..Len(lg) : lg[i].op = "delete" /\ lg[i].key = k})
LastClear(lg, k) ==
    Max({LastDelete(lg, k)} \cup {i \in 1..Len(lg) : lg[i].op = "must-refetch"})

\* the inserts and updates of key k after message number from
WritesAfter(lg, k, from) ==
    {i \in (from + 1)..Len(lg) : lg[i].op \in {"insert", "update"} /\ lg[i].key = k}

\* the latest value written to field f of key k after message number from
LatestField(lg, k, f, from) ==
    LET W == {i \in WritesAfter(lg, k, from) : lg[i].value[f] # "-"}
    IN  IF W = {} THEN "-" ELSE lg[Max(W)].value[f]

\* the row map holds exactly the keys written since they last left the map
\* (by a delete; with clears, by a delete or a must-refetch), each with its
\* latest merged value
RowsAreFoldFrom(clears) ==
    /\ NoDuplicateKeys(shape.rows)
    /\ \A k \in Keys :
          LET from == IF clears THEN LastClear(consumed, k) ELSE LastDelete(consumed, k)
          IN  /\ MapHas(shape.rows, k) <=> WritesAfter(consumed, k, from) # {}
              /\ MapHas(shape.rows, k) =>
                    \A f \in Fields :
                        MapGet(shape.rows, k)[f] = LatestField(consumed, k, f, from)

AfterUpToDate == consumed # <<>> /\ consumed[Len(consumed)].op = "up-to-date"

StoreDataIsRows == store.data = MapValues(shape.rows)

\* C10 as stated: after an up-to-date message isLoading() is false and the row
\* map, and the data array of the store, hold exactly the keys inserted or
\* updated and not subsequently deleted, each with its latest merged value.
C10_RowsAreInsertsMinusDeletes ==
    AfterUpToDate =>
        /\ ~shape.isLoading
        /\ RowsAreFoldFrom(FALSE)
        /\ StoreDataIsRows

\* C10 amended: ... not subsequently deleted or cleared by a must-refetch.
C10_RowsAreFoldOfConsumed ==
    AfterUpToDate =>
        /\ ~shape.isLoading
        /\ RowsAreFoldFrom(TRUE)
        /\ StoreDataIsRows

C10_Witness ==
    /\ AfterUpToDate
    /\ Len(consumed) = 4
    /\ consumed[1].op = "update" /\ consumed[1].key = 1
    /\ consumed[2].op = "delete" /\ consumed[2].key = 2
    /\ consumed[3].op = "update" /\ consumed[3].key = 1
    /\ Len(store.data) = 1
    /\ store.data[1] = [name |-> "B", status |-> "x"]

\* the last must-refetch control message consumed (0: none)
LastRefetch == Max({0} \cup {i \in 1..Len(consumed) : consumed[i].op = "must-refetch"})

\* no up-to-date control message has arrived since the last must-refetch
NoUpToDateSince ==
    \A i \in (LastRefetch + 1)..Len(consumed) : consumed[i].op # "up-to-date"

\* C11: after a must-refetch control message the row map holds only rows
\* written after it (it is empty right after the message), isLoading() is true
\* until the next up-to-date control message, and the store shows the same:
\* its data are the rows of the map and its isLoading is true.
C11_RefetchClearsAndLoads ==
    LastRefetch > 0 =>
        /\ \A k \in Keys :
              MapHas(shape.rows, k) =>
                  /\ WritesAfter(consumed, k, LastRefetch) # {}
                  /\ \A f \in Fields :
                        MapGet(shape.rows, k)[f] = LatestField(consumed, k, f, LastClear(consumed, k))
        /\ store.error = "null" => store.data = MapValues(shape.rows)
        /\ NoUpToDateSince =>
              /\ shape.isLoading
              /\ store.error = "null" => store.isLoading

C11_Witness ==
    /\ Len(consumed) = 4
    /\ consumed[1].op = "insert" /\ consumed[1].key = 1
    /\ consumed[2].op = "up-to-date"
    /\ consumed[3].op = "must-refetch"
    /\ consumed[4].op = "insert" /\ consumed[4].key = 2
    /\ valuePromise = "settled"
    /\ Len(shape.rows) = 1 /\ shape.rows[1].key = 2
    /\ shape.isLoading /\ store.isLoading

\* the subscriber has been told of the terminal error exactly once, and the
\* store shows it
ErrorNotifiedOnce ==
    shape.error # "null" => (errorCalls = 1 /\ store.error # "null")

\* a step taken after the terminal error leaves the Shape and the count of
\* subscriber invocations alone and keeps the error of the store
ErrorAbsorbs ==
    shape.error # "null" =>
        /\ shape' = shape
        /\ consumed' = consumed
        /\ errorCalls' = errorCalls
        /\ store'.error # "null"

\* C13: the terminal error is absorbing: once the Shape's error is non-null
\* the row map is never mutated again, the subscriber has been notified of the
\* error exactly once and is not invoked afterwards, and the error stays
\* non-null in the Shape and in the store.
C13_TerminalErrorAbsorbing == []ErrorNotifiedOnce /\ [][ErrorAbsorbs]_vars

C13_Witness ==
    /\ shape.error # "null" /\ store.error # "null"
    /\ valuePromise = "settled"
    /\ shape.rows # <<>> /\ store.data = <<>>
    /\ errorCalls = 1

(***************************************************************************)
(* Shape.subscribe / unsubscribe and the notification round                *)
(***************************************************************************)
coreVars == <<cacheVars, matchVars, shapeVars>>
restOfNotify ==
    <<coreVars, streamVars, syncVars, importVars, jmdictVars, kanjiVars, pageVars,
      tatoebaVars, routeVars>>

\* the handle of the callback createShapeStore subscribes; the code drops the
\* unsubscribe function subscribe returns, so this handle is never released
StoreHandle == 1

Remove(list, h) == SelectSeq(list, LAMBDA x : x # h)

isRegistered(list, h) == h \in Range(list)

\* faulty variant: the round visits every handle of the list it started with
visitsSnapshot(list, h) == TRUE

\* a round invokes a handle only while it is still in the subscriber list
visits(list, h) == isRegistered(list, h)

\* shape.subscribe(callback)
Subscribe(h) ==
    /\ ~notifying
    /\ ~isRegistered(shapeSubscribers, h) /\ h \notin released
    /\ shapeSubscribers' = Append(shapeSubscribers, h)
    /\ UNCHANGED <<dispatch, notifying, released, invocations, lateCalls, skipped, rounds>>
    /\ UNCHANGED restOfNotify

\* the unsubscribe function of handle h is called between two rounds
Unsubscribe(h) ==
    /\ ~notifying
    /\ h # StoreHandle
    /\ h \in Range(shapeSubscribers)
    /\ shapeSubscribers' = Remove(shapeSubscribers, h)
    /\ released' = released \cup {h}
    /\ UNCHANGED <<dispatch, notifying, invocations, lateCalls, skipped, rounds>>
    /\ UNCHANGED restOfNotify

\* the Shape starts a notification round over its subscribers
Notify ==
    /\ ~notifying
    /\ rounds < MaxRounds
    /\ shapeSubscribers # <<>>
    /\ dispatch' = shapeSubscribers
    /\ notifying' = TRUE
    /\ rounds' = rounds + 1
    /\ UNCHANGED <<shapeSubscribers, released, invocations, lateCalls, skipped>>
    /\ UNCHANGED restOfNotify

\* the round reaches its next handle; the callback it invokes may call the
\* unsubscribe function of handle g (0: it calls none); the callback of the
\* store calls none
Invoke(g) ==
    /\ notifying
    /\ LET h == Head(dispatch)
       IN  IF visits(shapeSubscribers, h)
           THEN /\ invocations' = [invocations EXCEPT ![h] = @ + 1]
                /\ lateCalls' = IF h \in released THEN lateCalls \cup {h} ELSE lateCalls
                /\ \/ g = 0 /\ UNCHANGED <<shapeSubscribers, released>>
                   \/ /\ h # StoreHandle /\ g # StoreHandle
                      /\ g \in Range(shapeSubscribers)
                      /\ shapeSubscribers' = Remove(shapeSubscribers, g)
                      /\ released' = released \cup {g}
                /\ UNCHANGED skipped
           ELSE /\ g = 0
                /\ skipped' = skipped \cup {h}
                /\ UNCHANGED <<shapeSubscribers, released, invocations, lateCalls>>
    /\ dispatch' = Tail(dispatch)
    /\ notifying' = (Tail(dispatch) # <<>>)
    /\ UNCHANGED rounds
    /\ UNCHANGED restOfNotify

NextNotify ==
    \/ \E h \in Handles : Subscribe(h)
    \/ \E h \in Handles : Unsubscribe(h)
    \/ Notify
    \/ \E g \in Handles \cup {0} : Invoke(g)

SpecNotify == InitItems /\ [][NextNotify]_vars

\* C12: no callback is invoked after its unsubscribe function has returned,
\* also when unsubscribe is called by a callback of the round in progress: a
\* released handle is in no dispatch list position that is still invoked.
C12_NoCallAfterUnsubscribe ==
    /\ lateCalls = {}
    /\ \A h \in released : ~isRegistered(shapeSubscribers, h)

C12_Witness ==
    /\ ~notifying
    /\ skipped # {}
    /\ lateCalls = {}
    /\ invocations[StoreHandle] = 2

(***************************************************************************)
(* ShapeStream: the pull loop, retry after a ConnectionError, close()      *)
(***************************************************************************)
\* the change messages the server log of this stream may hold
StreamMessages ==
    {[op |-> "insert", key |-> k, value |-> [name |-> "A", status |-> "-"]] : k \in Keys}
    \cup {[op |-> "update", key |-> 1, value |-> [name |-> "-", status |-> "x"]],
          [op |-> "delete", key |-> 1, value |-> NoValue]}

restOfStream ==
    <<coreVars, notifyVars, syncVars, importVars, jmdictVars, kanjiVars, pageVars,
      tatoebaVars, routeVars>>

\* the offsets from + 1 .. to
Offsets(from, to) == [i \in 1..(to - from) |-> from + i]

\* faulty variant: a retry resumes one message after the acknowledged cursor
resumeAfterCursor(cur) == cur + 1

\* a request resumes from the last acknowledged cursor
resumeOffset(cur) == cur

\* faulty variant: the listeners are handed the messages of a frame in reverse
deliverReversed(obs, att, batch) ==
    [c \in Consumers |->
        IF c \notin att THEN obs[c]
        ELSE IF c = "shape" THEN obs[c] \o batch
        ELSE obs[c] \o [i \in 1..Len(batch) |-> batch[Len(batch) + 1 - i]]]

\* the stream hands the messages of a frame, in order, to every attached consumer
deliver(obs, att, batch) ==
    [c \in Consumers |-> IF c \in att THEN obs[c] \o batch ELSE obs[c]]

\* faulty variant: the result of a request is delivered whether or not the
\* stream has been closed
deliversWhenClosed(cl) == TRUE

\* the result of a request is delivered only while the stream is open
deliverable(cl) == ~cl.closed

\* a write on the server appends a change message to the log
ServerWrite(msg) ==
    /\ Len(serverLog) < MaxLog
    /\ serverLog' = Append(serverLog, msg)
    /\ UNCHANGED <<pull, closing, emitted, attached, observedBy, attachedAt, streamShape>>
    /\ UNCHANGED restOfStream

\* the pull loop issues the next request
Request ==
    /\ ~closing.closed
    /\ pull.state = "idle"
    /\ pull' = [pull EXCEPT !.state = "fetching", !.offset = resumeOffset(pull.cursor)]
    /\ UNCHANGED <<serverLog, closing, emitted, attached, observedBy, attachedAt, streamShape>>
    /\ UNCHANGED restOfStream

\* the request in flight resolves with the messages up to offset n; the last
\* frame of the log is followed by the up-to-date control message
Response(n) ==
    /\ pull.state = "fetching"
    /\ n >= pull.offset /\ n <= Len(serverLog)
    /\ LET batch == Offsets(pull.offset, n)
           msgs == [i \in 1..Len(batch) |-> serverLog[batch[i]]]
           frame == IF n = Len(serverLog) THEN Append(msgs, UpToDate) ELSE msgs
       IN  IF deliverable(closing)
           THEN /\ emitted' = emitted \o batch
                /\ observedBy' = deliver(observedBy, attached, batch)
                /\ streamShape' = processBatch(streamShape, frame, Len(emitted))
                /\ pull' = [pull EXCEPT !.state = "idle", !.cursor = n]
                /\ UNCHANGED closing
           ELSE /\ closing' = [closing EXCEPT !.discarded = @ + 1]
                /\ pull' = [pull EXCEPT !.state = "stopped"]
                /\ UNCHANGED <<emitted, observedBy, streamShape>>
    /\ UNCHANGED <<serverLog, attached, attachedAt>>
    /\ UNCHANGED restOfStream

\* the request in flight fails with a ConnectionError: the loop backs off
ConnectionError ==
    /\ pull.state = "fetching"
    /\ pull.failures < MaxFailures
    /\ pull' = [pull EXCEPT !.state = IF closing.closed THEN "stopped" ELSE "backoff",
                            !.failures = @ + 1, !.failedAt = pull.cursor]
    /\ UNCHANGED <<serverLog, closing, emitted, attached, observedBy, attachedAt, streamShape>>
    /\ UNCHANGED restOfStream

\* the backoff delay is over: the loop retries
BackoffEnds ==
    /\ pull.state = "backoff"
    /\ pull' = [pull EXCEPT !.state = "idle"]
    /\ UNCHANGED <<serverLog, closing, emitted, attached, observedBy, attachedAt, streamShape>>
    /\ UNCHANGED restOfStream

\* close(): stops the loop; a backoff delay is cancelled, a request in flight
\* is left to resolve; a second call finds the stream closed
Close ==
    /\ closing.calls < MaxCloses
    /\ closing' = [closing EXCEPT !.closed = TRUE, !.calls = @ + 1,
                          !.emittedAtClose = IF closing.closed THEN @ ELSE Len(emitted)]
    /\ pull' = IF pull.state \in {"idle", "backoff"}
               THEN [pull EXCEPT !.state = "stopped"] ELSE pull
    /\ UNCHANGED <<serverLog, emitted, attached, observedBy, attachedAt, streamShape>>
    /\ UNCHANGED restOfStream

\* matchStream subscribes a listener to the stream
AttachListener(c) ==
    /\ ~closing.closed
    /\ c # "shape" /\ attachedAt[c] = -1
    /\ attached' = attached \cup {c}
    /\ attachedAt' = [attachedAt EXCEPT ![c] = Len(emitted)]
    /\ UNCHANGED <<serverLog, pull, closing, emitted, observedBy, streamShape>>
    /\ UNCHANGED restOfStream

\* a listener is removed (its match arrived or its wait timed out)
DetachListener(c) ==
    /\ c # "shape" /\ c \in attached
    /\ attached' = attached \ {c}
    /\ UNCHANGED <<serverLog, pull, closing, emitted, observedBy, attachedAt, streamShape>>
    /\ UNCHANGED restOfStream

NextStream ==
    \/ \E msg \in StreamMessages : ServerWrite(msg)
    \/ Request
    \/ \E n \in 0..MaxLog : Response(n)
    \/ ConnectionError
    \/ BackoffEnds
    \/ Close
    \/ \E c \in Consumers : AttachListener(c)
    \/ \E c \in Consumers : DetachListener(c)

SpecStream == InitItems /\ [][NextStream]_vars

\* the offsets of a sequence are strictly increasing
Increasing(seq) == \A i \in 1..Len(seq), j \in 1..Len(seq) : i < j => seq[i] < seq[j]

\* C14: every consumer attached to the stream (the Shape, a matchStream
\* listener) observes the messages in the order the stream emitted them: what
\* it has observed is the segment of the emitted sequence since it attached,
\* complete while it is attached, and no two offsets are swapped.
C14_ConsumersSeeEmittedOrder ==
    /\ Increasing(emitted)
    /\ \A c \in Consumers :
          attachedAt[c] >= 0 =>
              /\ attachedAt[c] + Len(observedBy[c]) <= Len(emitted)
              /\ observedBy[c] =
                    SubSeq(emitted, attachedAt[c] + 1, attachedAt[c] + Len(observedBy[c]))
              /\ c \in attached => attachedAt[c] + Len(observedBy[c]) = Len(emitted)

C14_Witness ==
    /\ observedBy["shape"] = <<1, 2>>
    /\ observedBy["listener"] = <<1, 2>>
    /\ pull.offset = 0

\* once close() has returned nothing is delivered
ClosedIsQuiet ==
    closing.closed =>
        /\ Len(emitted) = closing.emittedAtClose
        /\ pull.state \in {"stopped", "fetching"}

\* a step of a closed stream delivers nothing; a further close() changes
\* nothing but the count of calls
ClosedStaysQuiet ==
    closing.closed =>
        /\ closing'.closed
        /\ emitted' = emitted /\ observedBy' = observedBy /\ streamShape' = streamShape
        /\ closing'.calls > closing.calls => pull' = pull

\* C15: close() is idempotent and takes effect at once: a request in flight
\* when the stream was closed discards its result when it resolves, and no
\* message reaches any consumer after close() has returned.
C15_NothingDeliveredAfterClose == []ClosedIsQuiet /\ [][ClosedStaysQuiet]_vars

C15_Witness ==
    /\ closing.calls = 2
    /\ closing.discarded = 1
    /\ pull.state = "stopped"
    /\ Len(serverLog) = 2 /\ emitted = <<1>>

\* the Shape folded from the first n messages of the server log
FoldOfLog(n) ==
    processBatch([rows |-> <<>>, isLoading |-> TRUE, lastSyncedAt |-> 0, error |-> "null"],
                 SubSeq(serverLog, 1, n), 0)

\* C16: a ConnectionError is never terminal: the Shape's error stays null, the
\* loop backs off and retries from the last acknowledged cursor, and every
\* message up to the cursor has been emitted exactly once, so the row map is
\* the fold of the log up to the cursor.
C16_TransientFailureRecovers ==
    /\ streamShape.error = "null"
    /\ pull.state \in {"idle", "fetching", "backoff", "stopped"}
    /\ pull.state = "stopped" => closing.closed
    /\ pull.state = "fetching" => pull.offset = pull.cursor
    /\ pull.cursor <= Len(serverLog)
    /\ emitted = Offsets(0, pull.cursor)
    /\ streamShape.rows = FoldOfLog(pull.cursor).rows

C16_Witness ==
    /\ pull.failedAt = 1
    /\ pull.cursor = 2
    /\ emitted = <<1, 2>>
    /\ Len(streamShape.rows) = 2
    /\ ~streamShape.isLoading

\* stream s is in the stream cache
Cached(s) == \E k \in DOMAIN streamCache : streamCache[k] = s

\* the streams something depends on: a Shape was built on them, or a caller
\* of getShapeStream holds them
DependedOn == DOMAIN shapeCache \cup {x[2] : x \in returned}

\* no step removes or replaces an entry of the stream cache or the shape cache
CacheEntriesKept ==
    /\ \A k \in DOMAIN streamCache :
          k \in DOMAIN streamCache' /\ streamCache'[k] = streamCache[k]
    /\ \A t \in DOMAIN shapeCache :
          t \in DOMAIN shapeCache' /\ shapeCache'[t] = shapeCache[t]

\* C17: a stream is not evicted while a Shape or a caller depends on it: every
\* stream a Shape was built on or a caller was handed is still cached, and no
\* step of the caches removes an entry (the code releases nothing, so every
\* stream keeps its dependents).
C17_DependedStreamStaysCached ==
    [](\A t \in DependedOn : Cached(t)) /\ [][CacheEntriesKept]_vars

C17_Witness ==
    /\ Len(streams) = 2
    /\ DOMAIN shapeCache = {1}
    /\ returned = {<<1, 1>>, <<2, 2>>}
    /\ Cached(1) /\ Cached(2)

(***************************************************************************)
(* The local table sync adapter: load(), createItemsTable, the onMount of  *)
(* the page (syncShapeToTable, live.query), the server's writes            *)
(***************************************************************************)
restOfSync ==
    <<coreVars, notifyVars, streamVars, importVars, jmdictVars, kanjiVars, pageVars,
      tatoebaVars, routeVars>>

IdsOf(rows) == Range(rows)

\* the ids of a set as a sequence in ascending order
RECURSIVE Ascending(_)
Ascending(S) ==
    IF S = {} THEN <<>>
    ELSE LET x == CHOOSE y \in S : \A z \in S : y <= z
         IN  <<x>> \o Ascending(S \ {x})

\* faulty variant: the table is created without its primary key
createItemsTableNoKey(d) ==
    IF d.hasTable THEN d ELSE [hasTable |-> TRUE, primaryKey |-> FALSE, rows |-> <<>>]

\* CREATE TABLE IF NOT EXISTS "items" ("id" uuid PRIMARY KEY ...)
createItemsTable(d) ==
    IF d.hasTable THEN d ELSE [hasTable |-> TRUE, primaryKey |-> TRUE, rows |-> <<>>]

\* one statement of the adapter: an upsert on the primary key, or a delete
applyStatement(pk, rows, st) ==
    IF st.op = "delete" THEN SelectSeq(rows, LAMBDA r : r # st.key)
    ELSE IF pk /\ st.key \in IdsOf(rows) THEN rows
    ELSE Append(rows, st.key)

RECURSIVE applyAll(_, _, _)
applyAll(pk, rows, stmts) ==
    IF stmts = <<>> THEN rows
    ELSE applyAll(pk, applyStatement(pk, rows, Head(stmts)), Tail(stmts))

\* faulty variant: every statement is committed on its own
visibleAutocommit(committed, working) == working

\* what readers of the table see while the transaction is open
visibleInTransaction(committed, working) == committed

\* load(): PGlite.create on the IndexedDB file system, then createItemsTable
Load ==
    /\ session.phase = "none"
    /\ db' = createItemsTable(db)
    /\ session' = [session EXCEPT !.phase = "loaded"]
    /\ expected' = db.rows
    /\ persisted' = IdsOf(db.rows)
    /\ UNCHANGED <<serverItems, changes, syncRows, inbox, tx, applied, page>>
    /\ UNCHANGED restOfSync

\* onMount: syncShapeToTable; the Shape's first batch is the snapshot of the
\* server's rows
Attach ==
    /\ session.phase = "loaded"
    /\ session' = [session EXCEPT !.phase = "attached"]
    /\ syncRows' = serverItems
    /\ inbox' = <<[n |-> 1,
                   stmts |-> [i \in 1..Cardinality(serverItems) |->
                                 [op |-> "insert", key |-> Ascending(serverItems)[i]]]]>>
    /\ UNCHANGED <<serverItems, changes, db, tx, applied, expected, page, persisted>>
    /\ UNCHANGED restOfSync

\* onMount: live.query; its callback sets items to the rows of the table
LiveQuery ==
    /\ session.phase = "attached"
    /\ ~page.live
    /\ page' = [live |-> TRUE, items |-> db.rows]
    /\ UNCHANGED <<serverItems, changes, db, session, syncRows, inbox, tx, applied, expected,
                   persisted>>
    /\ UNCHANGED restOfSync

\* the Shape folds a batch and notifies the adapter, which queues it
Notified(stmts) ==
    IF session.phase = "attached"
    THEN /\ inbox' = Append(inbox, [n |-> Len(applied) + Len(inbox) + 1, stmts |-> stmts])
         /\ syncRows' = IdsOf(applyAll(TRUE, Ascending(syncRows), stmts))
    ELSE UNCHANGED <<inbox, syncRows>>

\* POST: the server inserts a row with a fresh id
ServerPost ==
    /\ changes < MaxChanges
    /\ LET id == changes + 1
       IN  /\ serverItems' = serverItems \cup {id}
           /\ Notified(<<[op |-> "insert", key |-> id]>>)
    /\ changes' = changes + 1
    /\ UNCHANGED <<db, session, tx, applied, expected, page, persisted>>
    /\ UNCHANGED restOfSync

\* DELETE: the server deletes every row in one statement
ServerDeleteAll ==
    /\ changes < MaxChanges
    /\ serverItems # {}
    /\ serverItems' = {}
    /\ Notified([i \in 1..Cardinality(serverItems) |->
                    [op |-> "delete", key |-> Ascending(serverItems)[i]]])
    /\ changes' = changes + 1
    /\ UNCHANGED <<db, session, tx, applied, expected, page, persisted>>
    /\ UNCHANGED restOfSync

\* the adapter opens a local transaction for the next batch
BeginTx ==
    /\ ~tx.open
    /\ inbox # <<>>
    /\ tx' = [open |-> TRUE, rows |-> db.rows, todo |-> Head(inbox).stmts]
    /\ UNCHANGED <<serverItems, changes, db, session, syncRows, inbox, applied, expected, page,
                   persisted>>
    /\ UNCHANGED restOfSync

\* the next statement of the batch runs inside the transaction
ApplyStatement ==
    /\ tx.open
    /\ tx.todo # <<>>
    /\ LET working == applyStatement(db.primaryKey, tx.rows, Head(tx.todo))
       IN  /\ tx' = [tx EXCEPT !.rows = working, !.todo = Tail(tx.todo)]
           /\ db' = [db EXCEPT !.rows = visibleInTransaction(db.rows, working)]
    /\ UNCHANGED <<serverItems, changes, session, syncRows, inbox, applied, expected, page,
                   persisted>>
    /\ UNCHANGED restOfSync

\* the transaction commits; the live query reruns and its callback sets items
Commit ==
    /\ tx.open
    /\ tx.todo = <<>>
    /\ db' = [db EXCEPT !.rows = tx.rows]
    /\ expected' = applyAll(db.primaryKey, expected, Head(inbox).stmts)
    /\ applied' = Append(applied, Head(inbox).n)
    /\ inbox' = Tail(inbox)
    /\ tx' = [open |-> FALSE, rows |-> <<>>, todo |-> <<>>]
    /\ page' = IF page.live THEN [page EXCEPT !.items = tx.rows] ELSE page
    /\ UNCHANGED <<serverItems, changes, session, syncRows, persisted>>
    /\ UNCHANGED restOfSync

\* the transaction fails and is rolled back; the batch is applied again
TxFails ==
    /\ tx.open
    /\ session.txFailures < MaxTxFailures
    /\ session' = [session EXCEPT !.txFailures = @ + 1]
    /\ tx' = [open |-> FALSE, rows |-> <<>>, todo |-> <<>>]
    /\ UNCHANGED <<serverItems, changes, db, syncRows, inbox, applied, expected, page, persisted>>
    /\ UNCHANGED restOfSync

\* the page is reloaded or the browser restarted: everything in memory is
\* gone, an open transaction is rolled back, the database file stays
Restart ==
    /\ session.phase # "none"
    /\ session.restarts < MaxRestarts
    /\ session' = [session EXCEPT !.phase = "none", !.restarts = @ + 1]
    /\ syncRows' = {}
    /\ inbox' = <<>>
    /\ tx' = [open |-> FALSE, rows |-> <<>>, todo |-> <<>>]
    /\ applied' = <<>>
    /\ page' = [live |-> FALSE, items |-> <<>>]
    /\ UNCHANGED <<serverItems, changes, db, expected, persisted>>
    /\ UNCHANGED restOfSync

NextSync ==
    \/ Load
    \/ Attach
    \/ LiveQuery
    \/ ServerPost
    \/ ServerDeleteAll
    \/ BeginTx
    \/ ApplyStatement
    \/ Commit
    \/ TxFails
    \/ Restart

SpecSync == InitItems /\ [][NextSync]_vars

\* C18: the adapter applies each notification batch in one local transaction:
\* in every state the local table is the table as of a batch boundary (all or
\* none of the batch in progress is visible), the batches are committed in the
\* order the Shape delivered them, and the items of the page are the rows of
\* the table.
C18_BatchesAtomicInOrder ==
    /\ db.rows = expected
    /\ applied = [i \in 1..Len(applied) |-> i]
    /\ page.live => page.items = db.rows

C18_Witness ==
    /\ tx.open
    /\ Len(tx.todo) = 1
    /\ Len(tx.rows) = 1 /\ Len(db.rows) = 2
    /\ applied = <<1, 2, 3>>
    /\ page.live

NoDuplicateIds(rows) == \A i \in 1..Len(rows), j \in 1..Len(rows) : rows[i] = rows[j] => i = j

\* the adapter has been attached again to a table that already held rows, the
\* Shape is up to date and every batch has been applied
Reattached ==
    /\ session.restarts >= 1
    /\ session.phase = "attached"
    /\ persisted # {}
    /\ inbox = <<>> /\ ~tx.open

restOfImport ==
    <<coreVars, notifyVars, streamVars, syncVars, jmdictVars, kanjiVars, pageVars,
      tatoebaVars, routeVars>>

MAX_RETRIES == 3

\* 250 in the source; scaled down so that a batch of three rows spans two
\* chunks, the chunk loop being the same
CHUNK_SIZE == 2

\* the rows processExamples may pass: "" is a missing entryId
EntryIds == {"e1", ""}
PairKeys == {"p1", "p2"}
ExampleRows == [entryId : EntryIds, pair : PairKeys]

RECURSIVE SeqsUpTo(_, _)
SeqsUpTo(S, n) ==
    IF n = 0 THEN {<<>>}
    ELSE LET shorter == SeqsUpTo(S, n - 1)
         IN  shorter \cup {Append(q, x) : q \in {r \in shorter : Len(r) = n - 1}, x \in S}

ExampleBatches == SeqsUpTo(ExampleRows, MaxBatchLen)

\* createSentencePairKey(japanese, english)
createSentencePairKey(example) == example.pair

Min(a, b) == IF a < b THEN a ELSE b

\* exampleValues.slice(i, i + CHUNK_SIZE)
Chunk(values, i) == SubSeq(values, i + 1, Min(i + CHUNK_SIZE, Len(values)))

\* the filter of the chunk: all fields present and the pair not processed yet
validChunk(chunk, processed) ==
    SelectSeq(chunk, LAMBDA example :
        example.entryId # "" /\ createSentencePairKey(example) \notin processed)

\* the catch block with the retry test off by one (retryCount <= MAX_RETRIES)
afterErrorRetriesOnceMore(r) ==
    [r EXCEPT !.pc = IF r.retryCount <= MAX_RETRIES THEN "delay" ELSE "thrown",
              !.txRows = <<>>]

\* the catch block: retry after the delay, or rethrow
afterError(r) ==
    [r EXCEPT !.pc = IF r.retryCount < MAX_RETRIES THEN "delay" ELSE "thrown",
              !.txRows = <<>>]

\* processExamples calls insertExamplesBatch(exampleValues); an empty batch
\* returns at once, otherwise the transaction is opened
InsertExamplesBatch(values) ==
    /\ run.pc \in {"idle", "returned"}
    /\ batchCalls < MaxBatchCalls
    /\ batchCalls' = batchCalls + 1
    /\ run' = IF values = <<>>
              THEN [pc |-> "returned", batch |-> values, i |-> 0, retryCount |-> 0,
                    txRows |-> <<>>, attempts |-> 0]
              ELSE [pc |-> "tx", batch |-> values, i |-> 0, retryCount |-> 0,
                    txRows |-> <<>>, attempts |-> 1]
    /\ UNCHANGED <<examplesTable, processedPairs>>
    /\ UNCHANGED restOfImport

\* one iteration of the chunk loop inside the transaction; the insert of the
\* chunk succeeds (ok) or throws, which rolls the transaction back
InsertChunk(ok) ==
    /\ run.pc = "tx"
    /\ run.i < Len(run.batch)
    /\ LET valid == validChunk(Chunk(run.batch, run.i), processedPairs)
       IN  IF valid = <<>>
           THEN /\ ok
                /\ run' = [run EXCEPT !.i = @ + CHUNK_SIZE]
                /\ UNCHANGED processedPairs
           ELSE IF ok
           THEN /\ run' = [run EXCEPT !.i = @ + CHUNK_SIZE, !.txRows = @ \o valid]
                /\ processedPairs' =
                      processedPairs \cup {createSentencePairKey(valid[k]) : k \in 1..Len(valid)}
           ELSE /\ run' = afterError(run)
                /\ UNCHANGED processedPairs
    /\ UNCHANGED <<examplesTable, batchCalls>>
    /\ UNCHANGED restOfImport

\* the callback has returned: the transaction commits (ok) or the commit throws
CommitBatch(ok) ==
    /\ run.pc = "tx"
    /\ run.i >= Len(run.batch)
    /\ IF ok
       THEN /\ examplesTable' = examplesTable \o run.txRows
            /\ run' = [run EXCEPT !.pc = "returned", !.txRows = <<>>]
       ELSE /\ run' = afterError(run)
            /\ UNCHANGED examplesTable
    /\ UNCHANGED <<processedPairs, batchCalls>>
    /\ UNCHANGED restOfImport

\* after RETRY_DELAY: return insertExamplesBatch(exampleValues, retryCount + 1)
RetryBatch ==
    /\ run.pc = "delay"
    /\ run' = [run EXCEPT !.pc = "tx", !.i = 0, !.retryCount = @ + 1, !.attempts = @ + 1]
    /\ UNCHANGED <<examplesTable, processedPairs, batchCalls>>
    /\ UNCHANGED restOfImport

NextImport ==
    \/ \E values \in ExampleBatches : InsertExamplesBatch(values)
    \/ \E ok \in BOOLEAN : InsertChunk(ok)
    \/ \E ok \in BOOLEAN : CommitBatch(ok)
    \/ RetryBatch

SpecImport == InitItems /\ [][NextImport]_vars

\* the pairs of the rows committed in the examples table
CommittedPairs == {createSentencePairKey(examplesTable[k]) : k \in 1..Len(examplesTable)}

\* C20: a pair is in processedPairs only once its insert has succeeded:
\* whenever no batch transaction is open every pair of processedPairs belongs
\* to a committed row of the examples table, and a call that returned has
\* committed a row for every pair of a valid row of its batch.
C20_ProcessedPairsAreCommitted ==
    /\ run.pc # "tx" => processedPairs \subseteq CommittedPairs
    /\ run.pc = "returned" =>
          \A k \in 1..Len(run.batch) :
              run.batch[k].entryId # "" =>
                  createSentencePairKey(run.batch[k]) \in CommittedPairs

\* one call of insertExamplesBatch is over: it returned or rethrew
CallOver == run.pc \in {"returned", "thrown"}

\* what one step of a transaction attempt may do: go on inside the attempt,
\* commit and return, or fail and then retry (fewer than 1 + MAX_RETRIES
\* attempts so far) or rethrow (the attempt was the last one)
AttemptOutcome ==
    run.pc = "tx" /\ run' # run =>
        \/ run'.pc = "tx" /\ run'.attempts = run.attempts
        \/ /\ run'.pc = "returned" /\ run'.attempts = run.attempts
           /\ examplesTable' = examplesTable \o run.txRows
        \/ /\ run'.pc = "delay" /\ run.attempts < 1 + MAX_RETRIES
           /\ examplesTable' = examplesTable
        \/ /\ run'.pc = "thrown" /\ run.attempts = 1 + MAX_RETRIES
           /\ examplesTable' = examplesTable

\* C21: one call of insertExamplesBatch makes at most 1 + MAX_RETRIES (= 4)
\* transaction attempts, returns normally as soon as one attempt succeeds, and
\* rethrows the error after the fourth consecutive failure.
C21_BoundedAttempts ==
    /\ [](/\ run.attempts <= 1 + MAX_RETRIES
          /\ run.attempts = (IF run.batch = <<>> THEN 0 ELSE run.retryCount + 1)
          /\ run.pc = "thrown" => run.attempts = 1 + MAX_RETRIES)
    /\ [][AttemptOutcome]_vars

C21_Witness ==
    /\ run.pc = "thrown"
    /\ run.attempts = 4
    /\ Len(run.batch) = 3

(***************************************************************************)
(* The JMdict import: main, downloadDictionary, processDictionary and      *)
(* processBatch.  An entry of the dictionary is modelled by the number of  *)
(* its glosses.                                                            *)
(***************************************************************************)
restOfJmdict ==
    <<coreVars, notifyVars, streamVars, syncVars, importVars, kanjiVars, pageVars,
      tatoebaVars, routeVars>>

\* BATCH_SIZE (5000) and the CHUNK_SIZE of the meanings (1000), scaled down so
\* that a dictionary of three entries spans two batches and a batch two chunks
JMDICT_BATCH_SIZE == 2
MEANINGS_CHUNK_SIZE == 2

GlossCounts == {1, 2}
Dictionaries == SeqsUpTo(GlossCounts, MaxEntries) \ {<<>>}
Prefixes(d) == {SubSeq(d, 1, n) : n \in 0..Len(d)}

\* the meanings of one entry, each with the known entry id (line 117)
meaningsOfFreshId(entryId, glosses, b) ==
    [p \in 1..glosses |-> [entryId |-> entryId + 100, priority |-> p - 1, batch |-> b]]

meaningsOf(entryId, glosses, b) ==
    [p \in 1..glosses |-> [entryId |-> entryId, priority |-> p - 1, batch |-> b]]

\* dictionaryValues of a batch: one row per entry with a new uuid() each
dictionaryValuesOf(batch, first, b) ==
    [k \in 1..Len(batch) |-> [id |-> first + k, batch |-> b]]

RECURSIVE meaningValuesOf(_, _, _, _)
meaningValuesOf(batch, first, b, k) ==
    IF k > Len(batch) THEN <<>>
    ELSE meaningsOf(first + k, batch[k], b) \o meaningValuesOf(batch, first, b, k + 1)

IdsIn(rows) == {r.id : r \in rows}

\* the state of a run that has not started processing
jmStart ==
    [pc |-> "mkdir", exitCode |-> "none", download |-> "pending", entries |-> <<>>,
     i |-> 0, batchNo |-> jm.batchNo, dictionaryValues |-> <<>>, meaningValues |-> <<>>,
     entriesInserted |-> FALSE, j |-> 0, txDict |-> {}, txMeanings |-> {},
     parsed |-> 0, inserted |-> 0]

\* the catch block of main: exit(1); an open transaction is rolled back
jmExit1(r) ==
    [r EXCEPT !.pc = "ended", !.exitCode = "1", !.txDict = {}, !.txMeanings = {}]

\* the catch block of downloadDictionary: the error is logged and
\* downloadDictionary returns normally, main goes on with processDictionary
jmDownloadFailed(r) == [r EXCEPT !.pc = "read", !.download = "failed"]

\* the script is started (again); main never removes the temp directory
JmdictMain ==
    /\ jm.pc = "ended"
    /\ jmRuns < MaxRuns
    /\ jmRuns' = jmRuns + 1
    /\ jm' = jmStart
    /\ UNCHANGED <<serverDict, xmlFile, dictionaryTable, meaningsTable, uuids>>
    /\ UNCHANGED restOfJmdict

\* fsPromises.mkdir(TEMP_DIR) ahead of the try block: a failure reaches main
MakeTempDir(ok) ==
    /\ jm.pc = "mkdir"
    /\ jm' = IF ok THEN [jm EXCEPT !.pc = "fetch"] ELSE jmExit1(jm)
    /\ UNCHANGED <<serverDict, xmlFile, dictionaryTable, meaningsTable, uuids, jmRuns>>
    /\ UNCHANGED restOfJmdict

\* fetch, the response.ok test, the content-type test and saving the .gz file
FetchDictionary(outcome) ==
    /\ jm.pc = "fetch"
    /\ outcome \in {"ok", "network error", "not ok", "not gzip", "save failed"}
    /\ jm' = IF outcome = "ok" THEN [jm EXCEPT !.pc = "extract"] ELSE jmDownloadFailed(jm)
    /\ UNCHANGED <<serverDict, xmlFile, dictionaryTable, meaningsTable, uuids, jmRuns>>
    /\ UNCHANGED restOfJmdict

\* gunzip into XML_PATH: the write stream truncates the file; a failure leaves
\* what had been written so far
ExtractDictionary(d, written) ==
    /\ jm.pc = "extract"
    /\ d \in Dictionaries
    /\ serverDict \in {<<>>, d}
    /\ written \in Prefixes(d)
    /\ serverDict' = d
    /\ xmlFile' = [exists |-> TRUE, entries |-> written]
    /\ jm' = IF written = d THEN [jm EXCEPT !.pc = "read", !.download = "ok"]
             ELSE jmDownloadFailed(jm)
    /\ UNCHANGED <<dictionaryTable, meaningsTable, uuids, jmRuns>>
    /\ UNCHANGED restOfJmdict

\* processDictionary: readFile(XML_PATH) and parser.parse; a missing file, a
\* document without entries or a parse error throws
ReadAndParse(ok) ==
    /\ jm.pc = "read"
    /\ jm' = IF ~xmlFile.exists \/ xmlFile.entries = <<>> \/ ~ok
             THEN jmExit1(jm)
             ELSE [jm EXCEPT !.pc = "loop", !.entries = xmlFile.entries, !.i = 0,
                             !.parsed = Len(xmlFile.entries)]
    /\ UNCHANGED <<serverDict, xmlFile, dictionaryTable, meaningsTable, uuids, jmRuns>>
    /\ UNCHANGED restOfJmdict

\* the batch loop of processDictionary and the first half of processBatch: the
\* values of the next batch are prepared; after the last batch main returns
ProcessBatch ==
    /\ jm.pc = "loop"
    /\ IF jm.i >= Len(jm.entries)
       THEN /\ jm' = [jm EXCEPT !.pc = "ended", !.exitCode = "0"]
            /\ UNCHANGED uuids
       ELSE LET batch == SubSeq(jm.entries, jm.i + 1,
                                Min(jm.i + JMDICT_BATCH_SIZE, Len(jm.entries)))
                b == jm.batchNo + 1
            IN  /\ uuids' = uuids + Len(batch)
                /\ jm' = [jm EXCEPT !.pc = "tx", !.batchNo = b,
                             !.dictionaryValues = dictionaryValuesOf(batch, uuids, b),
                             !.meaningValues = meaningValuesOf(batch, uuids, b, 1),
                             !.entriesInserted = FALSE, !.j = 0,
                             !.txDict = {}, !.txMeanings = {}]
    /\ UNCHANGED <<serverDict, xmlFile, dictionaryTable, meaningsTable, jmRuns>>
    /\ UNCHANGED restOfJmdict

\* tx.insert(dictionaryEntries).values(dictionaryValues)
InsertEntries(ok) ==
    /\ jm.pc = "tx"
    /\ ~jm.entriesInserted
    /\ jm' = IF ok THEN [jm EXCEPT !.entriesInserted = TRUE,
                                   !.txDict = Range(jm.dictionaryValues)]
             ELSE jmExit1(jm)
    /\ UNCHANGED <<serverDict, xmlFile, dictionaryTable, meaningsTable, uuids, jmRuns>>
    /\ UNCHANGED restOfJmdict

\* tx.insert(meanings).values(chunk): the insert throws when the database
\* fails or when a row violates the foreign key on entry_id
InsertMeanings(ok) ==
    /\ jm.pc = "tx"
    /\ jm.entriesInserted
    /\ jm.j < Len(jm.meaningValues)
    /\ LET chunk == SubSeq(jm.meaningValues, jm.j + 1,
                           Min(jm.j + MEANINGS_CHUNK_SIZE, Len(jm.meaningValues)))
           referenced == \A k \in 1..Len(chunk) :
                             chunk[k].entryId \in IdsIn(dictionaryTable \cup jm.txDict)
       IN  jm' = IF ok /\ referenced
                 THEN [jm EXCEPT !.j = @ + MEANINGS_CHUNK_SIZE,
                                 !.txMeanings = @ \cup Range(chunk)]
                 ELSE jmExit1(jm)
    /\ UNCHANGED <<serverDict, xmlFile, dictionaryTable, meaningsTable, uuids, jmRuns>>
    /\ UNCHANGED restOfJmdict

\* the transaction callback has returned: commit, or the commit throws
CommitBatchOfEntries(ok) ==
    /\ jm.pc = "tx"
    /\ jm.entriesInserted
    /\ jm.j >= Len(jm.meaningValues)
    /\ IF ok
       THEN /\ dictionaryTable' = dictionaryTable \cup jm.txDict
            /\ meaningsTable' = meaningsTable \cup jm.txMeanings
            /\ jm' = [jm EXCEPT !.pc = "loop", !.i = @ + JMDICT_BATCH_SIZE,
                                !.txDict = {}, !.txMeanings = {},
                                !.inserted = @ + Cardinality(jm.txDict)]
       ELSE /\ jm' = jmExit1(jm)
            /\ UNCHANGED <<dictionaryTable, meaningsTable>>
    /\ UNCHANGED <<serverDict, xmlFile, uuids, jmRuns>>
    /\ UNCHANGED restOfJmdict

NextJmdict ==
    \/ JmdictMain
    \/ \E ok \in BOOLEAN : MakeTempDir(ok)
    \/ \E outcome \in {"ok", "network error", "not ok", "not gzip", "save failed"} :
          FetchDictionary(outcome)
    \/ \E d \in Dictionaries : \E written \in Prefixes(d) : ExtractDictionary(d, written)
    \/ \E ok \in BOOLEAN : ReadAndParse(ok)
    \/ ProcessBatch
    \/ \E ok \in BOOLEAN : InsertEntries(ok)
    \/ \E ok \in BOOLEAN : InsertMeanings(ok)
    \/ \E ok \in BOOLEAN : CommitBatchOfEntries(ok)

SpecJmdict == InitItems /\ [][NextJmdict]_vars

\* the rows of batch b that are committed
CommittedOfBatch(b) ==
    {e \in dictionaryTable : e.batch = b} \cup {m \in meaningsTable : m.batch = b}

\* no committed meaning without the committed entry of the same batch it
\* refers to; inside the transaction the entries are written before any
\* meaning, and every prepared meaning carries the id of a prepared entry
NoOrphanMeaning ==
    /\ \A m \in meaningsTable :
          \E e \in dictionaryTable : e.id = m.entryId /\ e.batch = m.batch
    /\ jm.txMeanings # {} => jm.txDict = Range(jm.dictionaryValues)
    /\ jm.pc = "tx" =>
          \A k \in 1..Len(jm.meaningValues) :
              jm.meaningValues[k].entryId \in IdsIn(Range(jm.dictionaryValues))

\* a batch is committed whole or not at all
BatchAllOrNothing ==
    jm.pc = "tx" =>
        \/ /\ jm'.pc = "tx"
           /\ dictionaryTable' = dictionaryTable /\ meaningsTable' = meaningsTable
        \/ /\ jm'.pc = "loop"
           /\ dictionaryTable' = dictionaryTable \cup Range(jm.dictionaryValues)
           /\ meaningsTable' = meaningsTable \cup Range(jm.meaningValues)
        \/ /\ jm'.pc = "ended" /\ jm'.exitCode = "1"
           /\ dictionaryTable' = dictionaryTable /\ meaningsTable' = meaningsTable

\* C22: processBatch never leaves an orphan meaning: entries and meanings are
\* inserted in one transaction with the entries first, every meaning row's
\* entryId is the id generated for an entry of the same batch, and if any
\* insert of the batch fails neither entries nor meanings of it are committed.
C22_NoOrphanMeaning == []NoOrphanMeaning /\ [][BatchAllOrNothing]_vars

C22_Witness ==
    /\ jm.pc = "ended" /\ jm.exitCode = "1"
    /\ jm.batchNo = 2
    /\ Len(jm.meaningValues) = 2
    /\ Cardinality(meaningsTable) = 3
    /\ CommittedOfBatch(2) = {}

\* C29: in the JMdict import processDictionary starts only after
\* downloadDictionary has succeeded: if the download, the gzip content-type
\* check or the extraction fails, the import ends with exit code 1 and no
\* dictionary entry is parsed or inserted.
C29_ProcessingOnlyAfterDownload ==
    /\ jm.pc \in {"read", "loop", "tx"} => jm.download = "ok"
    /\ jm.download = "failed" => jm.parsed = 0 /\ jm.inserted = 0
    /\ jm.pc = "ended" /\ jm.download = "failed" => jm.exitCode = "1"

(***************************************************************************)
(* The KANJIDIC import: main, downloadAndExtract, processKanji             *)
(***************************************************************************)
restOfKanji ==
    <<coreVars, notifyVars, streamVars, syncVars, importVars, jmdictVars, pageVars,
      tatoebaVars, routeVars>>

\* the number of <character> elements of kanjidic2.xml and BATCH_SIZE (500 in
\* the source), scaled down so that the file spans two batches
KanjiCount == 3
KANJI_BATCH_SIZE == 2

\* the error reaches main, which logs and rethrows it: the process ends with
\* an unhandled rejection
kdFails(r) == [r EXCEPT !.pc = "ended", !.exitCode = "1"]

\* the finally block with no inner try/catch: an unlink error replaces the
\* outcome of the extraction
afterUnlinkUnguarded(extraction, unlinkOk) ==
    IF extraction = "ok" /\ unlinkOk THEN "returned" ELSE "thrown"

\* the end of the finally block: the unlink error is logged only, the
\* extraction error (if any) propagates
afterUnlink(extraction, unlinkOk) ==
    IF extraction = "ok" THEN "returned" ELSE "thrown"

\* the script is started (again); main never removes the temp directory
KanjiMain ==
    /\ kd.pc = "ended"
    /\ kanjiRuns < MaxKanjiRuns
    /\ kanjiRuns' = kanjiRuns + 1
    /\ kd' = [pc |-> "mkdir", extraction |-> "none", unlink |-> "none", outcome |-> "none",
              i |-> 0, exitCode |-> "none"]
    /\ UNCHANGED <<kanjiFiles, kanjiTable>>
    /\ UNCHANGED restOfKanji

EnsureTempDir(ok) ==
    /\ kd.pc = "mkdir"
    /\ kd' = IF ok THEN [kd EXCEPT !.pc = "fetch"] ELSE kdFails(kd)
    /\ UNCHANGED <<kanjiFiles, kanjiTable, kanjiRuns>>
    /\ UNCHANGED restOfKanji

\* fetch(url) and the response.ok / response.body test
KanjiFetch(ok) ==
    /\ kd.pc = "fetch"
    /\ kd' = IF ok THEN [kd EXCEPT !.pc = "save"]
             ELSE kdFails([kd EXCEPT !.outcome = "thrown"])
    /\ UNCHANGED <<kanjiFiles, kanjiTable, kanjiRuns>>
    /\ UNCHANGED restOfKanji

\* the response body is written to tempPath; the write stream creates the
\* file, a failure of the pipeline leaves it behind
SaveGz(ok) ==
    /\ kd.pc = "save"
    /\ kanjiFiles' = [kanjiFiles EXCEPT !.gz = TRUE]
    /\ kd' = IF ok THEN [kd EXCEPT !.pc = "extract"]
             ELSE kdFails([kd EXCEPT !.outcome = "thrown"])
    /\ UNCHANGED <<kanjiTable, kanjiRuns>>
    /\ UNCHANGED restOfKanji

\* pipeline(input, gunzip, output) inside the try block
Extract(ok) ==
    /\ kd.pc = "extract"
    /\ kanjiFiles' = [kanjiFiles EXCEPT !.xml = IF ok THEN "full" ELSE "partial"]
    /\ kd' = [kd EXCEPT !.pc = "unlink", !.extraction = IF ok THEN "ok" ELSE "failed"]
    /\ UNCHANGED <<kanjiTable, kanjiRuns>>
    /\ UNCHANGED restOfKanji

\* the finally block: fsPromises.unlink(tempPath) in its own try/catch, then
\* downloadAndExtract returns or the extraction error propagates
Unlink(ok) ==
    /\ kd.pc = "unlink"
    /\ kanjiFiles' = [kanjiFiles EXCEPT !.gz = IF ok THEN FALSE ELSE @]
    /\ LET outcome == afterUnlink(kd.extraction, ok)
           r == [kd EXCEPT !.unlink = IF ok THEN "ok" ELSE "failed", !.outcome = outcome]
       IN  kd' = IF outcome = "returned" THEN [r EXCEPT !.pc = "parse"] ELSE kdFails(r)
    /\ UNCHANGED <<kanjiTable, kanjiRuns>>
    /\ UNCHANGED restOfKanji

\* readFile(KANJIDIC_PATH) and parser.parse
ParseKanji(ok) ==
    /\ kd.pc = "parse"
    /\ kd' = IF ok /\ kanjiFiles.xml = "full" THEN [kd EXCEPT !.pc = "batch", !.i = 0]
             ELSE kdFails(kd)
    /\ UNCHANGED <<kanjiFiles, kanjiTable, kanjiRuns>>
    /\ UNCHANGED restOfKanji

\* the batch loop of processKanji with processKanjiBatch: one transaction
\* per batch
ProcessKanjiBatch(ok) ==
    /\ kd.pc = "batch"
    /\ IF kd.i >= KanjiCount
       THEN /\ ok
            /\ kd' = [kd EXCEPT !.pc = "verify"]
            /\ UNCHANGED kanjiTable
       ELSE IF ok
       THEN /\ kanjiTable' = kanjiTable + Min(KANJI_BATCH_SIZE, KanjiCount - kd.i)
            /\ kd' = [kd EXCEPT !.i = @ + KANJI_BATCH_SIZE]
       ELSE /\ kd' = kdFails(kd)
            /\ UNCHANGED kanjiTable
    /\ UNCHANGED <<kanjiFiles, kanjiRuns>>
    /\ UNCHANGED restOfKanji

\* verifyImport counts the rows; then main returns
VerifyImport(ok) ==
    /\ kd.pc = "verify"
    /\ kd' = IF ok THEN [kd EXCEPT !.pc = "ended", !.exitCode = "0"] ELSE kdFails(kd)
    /\ UNCHANGED <<kanjiFiles, kanjiTable, kanjiRuns>>
    /\ UNCHANGED restOfKanji

NextKanji ==
    \/ KanjiMain
    \/ \E ok \in BOOLEAN : EnsureTempDir(ok)
    \/ \E ok \in BOOLEAN : KanjiFetch(ok)
    \/ \E ok \in BOOLEAN : SaveGz(ok)
    \/ \E ok \in BOOLEAN : Extract(ok)
    \/ \E ok \in BOOLEAN : Unlink(ok)
    \/ \E ok \in BOOLEAN : ParseKanji(ok)
    \/ \E ok \in BOOLEAN : ProcessKanjiBatch(ok)
    \/ \E ok \in BOOLEAN : VerifyImport(ok)

SpecKanji == InitItems /\ [][NextKanji]_vars

\* downloadAndExtract has reached the extraction and is over
ExtractionOver == kd.extraction # "none" /\ kd.outcome # "none"

\* C23: in the KANJIDIC downloadAndExtract the .gz temp file is removed on
\* every path that reaches extraction, whether extraction succeeds or fails
\* (the unlink is run, and the file is left only if the unlink itself fails),
\* and a failure to remove it does not replace or suppress the extraction
\* outcome: downloadAndExtract throws exactly when the extraction failed.
C23_TempFileRemovedOutcomeKept ==
    /\ kd.pc \notin {"extract", "unlink"} /\ kd.extraction # "none" =>
          /\ kd.unlink # "none"
          /\ kanjiFiles.gz <=> kd.unlink = "failed"
          /\ kd.outcome = (IF kd.extraction = "ok" THEN "returned" ELSE "thrown")
    /\ kd.outcome = "thrown" /\ kd.extraction # "none" =>
          kd.pc = "ended" /\ kd.exitCode = "1"

C23_Witness ==
    /\ ExtractionOver
    /\ kd.extraction = "ok" /\ kd.unlink = "failed"
    /\ kd.outcome = "returned"
    /\ kanjiFiles.gz
    /\ kanjiTable = 3
    /\ kd.exitCode = "0"

(***************************************************************************)
(* createShapeStore as a mirror of its Shape                               *)
(***************************************************************************)
\* the store has processed a notification or the settlement of shape.value
StoreInformed ==
    store.init /\ (consumed # <<>> \/ shape.error # "null" \/ valuePromise = "settled")

\* the catch reaction of shape.value has run: the value settled although the
\* Shape was never up to date
CatchRan ==
    /\ valuePromise = "settled"
    /\ \A i \in 1..Len(consumed) : consumed[i].op # "up-to-date"

\* C24 as stated: whenever no callback is running and a notification or the
\* settlement of shape.value has been processed, store.isLoading equals
\* shape.isLoading() and store.error equals shape.error.
C24_StoreMirrorsShape ==
    StoreInformed => (store.isLoading = shape.isLoading /\ store.error = shape.error)

\* C24 amended: under the same condition store.error equals shape.error, and
\* store.isLoading equals shape.isLoading() unless the catch reaction of
\* shape.value has run, after which store.isLoading is false while
\* shape.isLoading() is still true.
C24_StoreMirrorsShapeUntilRejected ==
    StoreInformed =>
        /\ store.error = shape.error
        /\ IF CatchRan THEN ~store.isLoading /\ shape.isLoading
           ELSE store.isLoading = shape.isLoading

C24_Witness ==
    /\ StoreInformed /\ CatchRan
    /\ Len(consumed) = 2
    /\ consumed[2] = MustRefetch
    /\ store.error = "error"
    /\ ~store.isLoading /\ shape.isLoading

(***************************************************************************)
(* load() in its two versions and the life cycle of the page component     *)
(***************************************************************************)
restOfPage ==
    <<coreVars, notifyVars, streamVars, syncVars, importVars, jmdictVars, kanjiVars,
      tatoebaVars, routeVars>>

Loaders == {"singleton", "fresh"}

\* what the callback passed to onMount returns to Svelte: the callback is an
\* async function, so a Promise (of the cleanup function)
onMountReturns == "promise"

\* on destroy Svelte calls what onMount's callback returned only if that is a
\* function
cleanupIsCalled(result) == result = "function"

\* load() is called; the singleton version tests !pgliteInstance and returns
\* the instance at once when it is set
LoadStart(v) ==
    /\ Len(loads) < MaxLoads
    /\ loader \in {"none", v}
    /\ loader' = v
    /\ loads' = Append(loads,
          IF v = "singleton" /\ pgliteInstance # 0
          THEN [pc |-> "returned", created |-> 0, ret |-> pgliteInstance,
                readyOnReturn |-> pgliteInstance \in tableReady]
          ELSE [pc |-> "creating", created |-> 0, ret |-> 0, readyOnReturn |-> FALSE])
    /\ UNCHANGED <<pgliteInstance, instances, tablePending, tableReady, mounts>>
    /\ UNCHANGED restOfPage

\* PGlite.create resolves.  Singleton: pgliteInstance is assigned and
\* createItemsTable awaited.  Fresh: createItemsTable is called without await
\* and load() returns
CreateResolves(c) ==
    /\ c \in 1..Len(loads)
    /\ loads[c].pc = "creating"
    /\ instances' = instances + 1
    /\ tablePending' = tablePending \cup {instances + 1}
    /\ IF loader = "singleton"
       THEN /\ pgliteInstance' = instances + 1
            /\ loads' = [loads EXCEPT ![c].pc = "awaitTable", ![c].created = instances + 1]
       ELSE /\ UNCHANGED pgliteInstance
            /\ loads' = [loads EXCEPT ![c].pc = "returned", ![c].created = instances + 1,
                                      ![c].ret = instances + 1,
                                      ![c].readyOnReturn = FALSE]
    /\ UNCHANGED <<loader, tableReady, mounts>>
    /\ UNCHANGED restOfPage

\* the CREATE TABLE IF NOT EXISTS of createItemsTable completes
CreateItemsTableDone(p) ==
    /\ p \in tablePending
    /\ tablePending' = tablePending \ {p}
    /\ tableReady' = tableReady \cup {p}
    /\ UNCHANGED <<loader, pgliteInstance, instances, loads, mounts>>
    /\ UNCHANGED restOfPage

\* singleton load(): the awaited createItemsTable is over, load() returns
\* { pglite: pgliteInstance }
LoadReturns(c) ==
    /\ c \in 1..Len(loads)
    /\ loads[c].pc = "awaitTable"
    /\ loads[c].created \in tableReady
    /\ loads' = [loads EXCEPT ![c].pc = "returned", ![c].ret = pgliteInstance,
                              ![c].readyOnReturn = pgliteInstance \in tableReady]
    /\ UNCHANGED <<loader, pgliteInstance, instances, tablePending, tableReady, mounts>>
    /\ UNCHANGED restOfPage

\* the page is mounted with the data of a load() that returned: onMount calls
\* syncShapeToTable
Mount(c) ==
    /\ c \in 1..Len(loads)
    /\ loads[c].pc = "returned"
    /\ Len(mounts) < MaxMounts
    /\ \A k \in 1..Len(mounts) : ~mounts[k].alive
    /\ mounts' = Append(mounts, [step |-> "sync", alive |-> TRUE, subscribed |-> FALSE,
                                 pglite |-> loads[c].ret,
                                 tableReadyAtSync |-> loads[c].ret \in tableReady])
    /\ UNCHANGED <<loader, pgliteInstance, instances, tablePending, tableReady, loads>>
    /\ UNCHANGED restOfPage

\* syncShapeToTable resolves with the subscription; live.query is called
SyncResolves(k) ==
    /\ k \in 1..Len(mounts)
    /\ mounts[k].step = "sync"
    /\ mounts' = [mounts EXCEPT ![k].step = "query", ![k].subscribed = TRUE]
    /\ UNCHANGED <<loader, pgliteInstance, instances, tablePending, tableReady, loads>>
    /\ UNCHANGED restOfPage

\* live.query resolves; the callback of onMount returns the cleanup function,
\* which resolves the Promise it had returned
LiveQueryResolves(k) ==
    /\ k \in 1..Len(mounts)
    /\ mounts[k].step = "query"
    /\ mounts' = [mounts EXCEPT ![k].step = "done"]
    /\ UNCHANGED <<loader, pgliteInstance, instances, tablePending, tableReady, loads>>
    /\ UNCHANGED restOfPage

\* the page component is destroyed: Svelte runs the cleanup of onMount if the
\* callback returned one; the cleanup is () => shape.unsubscribe()
Destroy(k) ==
    /\ k \in 1..Len(mounts)
    /\ mounts[k].alive
    /\ mounts' = [mounts EXCEPT ![k].alive = FALSE,
                                ![k].subscribed =
                                    IF cleanupIsCalled(onMountReturns) THEN FALSE ELSE @]
    /\ UNCHANGED <<loader, pgliteInstance, instances, tablePending, tableReady, loads>>
    /\ UNCHANGED restOfPage

NextPage ==
    \/ \E v \in Loaders : LoadStart(v)
    \/ \E c \in 1..MaxLoads : CreateResolves(c)
    \/ \E p \in 1..MaxLoads : CreateItemsTableDone(p)
    \/ \E c \in 1..MaxLoads : LoadReturns(c)
    \/ \E c \in 1..MaxLoads : Mount(c)
    \/ \E k \in 1..MaxMounts : SyncResolves(k)
    \/ \E k \in 1..MaxMounts : LiveQueryResolves(k)
    \/ \E k \in 1..MaxMounts : Destroy(k)

SpecPage == InitItems /\ [][NextPage]_vars

\* C25: across any number of load() calls, overlapping ones included, at most
\* one PGlite instance is created for 'my-database' and every call returns
\* that same instance.
C25_OnePGliteInstance ==
    /\ instances <= 1
    /\ \A c \in 1..Len(loads), e \in 1..Len(loads) :
          loads[c].pc = "returned" /\ loads[e].pc = "returned" => loads[c].ret = loads[e].ret

\* C26: syncShapeToTable is never started before the creation of the items
\* table has completed: load() returns the pglite handle only after
\* createItemsTable has finished.
C26_SyncAfterTableCreated ==
    /\ \A c \in 1..Len(loads) : loads[c].pc = "returned" => loads[c].readyOnReturn
    /\ \A k \in 1..Len(mounts) : mounts[k].tableReadyAtSync

\* C27: when the page component is destroyed the table sync started in
\* onMount is unsubscribed: no subscription of a destroyed page is live, and
\* however often the page is remounted at most one subscription is live.
C27_UnsubscribedOnDestroy ==
    /\ \A k \in 1..Len(mounts) : ~mounts[k].alive => ~mounts[k].subscribed
    /\ Cardinality({k \in 1..Len(mounts) : mounts[k].subscribed}) <= 1

(***************************************************************************)
(* The Tatoeba import: main, downloadTatoebaFiles, cleanup                 *)
(***************************************************************************)
restOfTatoeba ==
    <<coreVars, notifyVars, streamVars, syncVars, importVars, jmdictVars, kanjiVars,
      pageVars, routeVars>>

\* the catch block of main: exit(1) ends the process there and then; the
\* finally block is not reached
tmExit1(r) == [r EXCEPT !.pc = "ended", !.exitCode = "1"]

\* the script is started (again)
TatoebaMain ==
    /\ tm.pc = "ended"
    /\ tatoebaRuns < MaxTatoebaRuns
    /\ tatoebaRuns' = tatoebaRuns + 1
    /\ tm' = [pc |-> "clear", i |-> 0, cleanupCalled |-> FALSE, exitCode |-> "none"]
    /\ UNCHANGED tempDir
    /\ UNCHANGED restOfTatoeba

\* clearTables: TRUNCATE TABLE examples; an error is logged and rethrown
ClearTables(ok) ==
    /\ tm.pc = "clear"
    /\ tm' = IF ok THEN [tm EXCEPT !.pc = "mkdir"] ELSE tmExit1(tm)
    /\ UNCHANGED <<tempDir, tatoebaRuns>>
    /\ UNCHANGED restOfTatoeba

\* downloadTatoebaFiles: mkdir(TEMP_DIR)
MakeTatoebaTempDir(ok) ==
    /\ tm.pc = "mkdir"
    /\ IF ok
       THEN /\ tempDir' = [tempDir EXCEPT !.exists = TRUE]
            /\ tm' = [tm EXCEPT !.pc = "sentences"]
       ELSE /\ tm' = tmExit1(tm)
            /\ UNCHANGED tempDir
    /\ UNCHANGED tatoebaRuns
    /\ UNCHANGED restOfTatoeba

\* downloadAndExtractFile for the sentences, then for the links: fetch, save
\* the archive, extract it with tar, unlink the archive
DownloadAndExtractFile(outcome) ==
    /\ tm.pc \in {"sentences", "links"}
    /\ outcome \in {"ok", "fetch failed", "save failed", "tar failed", "unlink failed"}
    /\ LET archive == tm.pc \o ".csv.tar.bz2"
           csv == tm.pc \o ".csv"
           added == IF outcome = "fetch failed" THEN {}
                    ELSE IF outcome \in {"save failed", "tar failed"} THEN {archive}
                    ELSE IF outcome = "unlink failed" THEN {archive, csv}
                    ELSE {csv}
       IN  tempDir' = [tempDir EXCEPT !.files = (@ \ {archive}) \cup added]
    /\ tm' = IF outcome = "ok"
             THEN [tm EXCEPT !.pc = IF tm.pc = "sentences" THEN "links" ELSE "verify"]
             ELSE tmExit1(tm)
    /\ UNCHANGED tatoebaRuns
    /\ UNCHANGED restOfTatoeba

\* fsPromises.access of both files
VerifyFiles(ok) ==
    /\ tm.pc = "verify"
    /\ tm' = IF ok /\ {"sentences.csv", "links.csv"} \subseteq tempDir.files
             THEN [tm EXCEPT !.pc = "process"] ELSE tmExit1(tm)
    /\ UNCHANGED <<tempDir, tatoebaRuns>>
    /\ UNCHANGED restOfTatoeba

\* processExamples: one insertExamplesBatch call after the other; a call
\* that rethrows ends processExamples; after the last one main's try block
\* is over and the finally block starts
ProcessExamples(ok) ==
    /\ tm.pc = "process"
    /\ tm' = IF ~ok THEN tmExit1(tm)
             ELSE IF tm.i < MaxExampleBatches THEN [tm EXCEPT !.i = @ + 1]
             ELSE [tm EXCEPT !.pc = "finally"]
    /\ ok \/ tm.i < MaxExampleBatches
    /\ UNCHANGED <<tempDir, tatoebaRuns>>
    /\ UNCHANGED restOfTatoeba

\* the finally block of main: cleanup() removes the temp directory; if the
\* removal fails main rejects
Cleanup(ok) ==
    /\ tm.pc = "finally"
    /\ tempDir' = IF ok THEN [exists |-> FALSE, files |-> {}] ELSE tempDir
    /\ tm' = [tm EXCEPT !.pc = "ended", !.cleanupCalled = TRUE,
                        !.exitCode = IF ok THEN "0" ELSE "1"]
    /\ UNCHANGED tatoebaRuns
    /\ UNCHANGED restOfTatoeba

NextTatoeba ==
    \/ TatoebaMain
    \/ \E ok \in BOOLEAN : ClearTables(ok)
    \/ \E ok \in BOOLEAN : MakeTatoebaTempDir(ok)
    \/ \E outcome \in {"ok", "fetch failed", "save failed", "tar failed", "unlink failed"} :
          DownloadAndExtractFile(outcome)
    \/ \E ok \in BOOLEAN : VerifyFiles(ok)
    \/ \E ok \in BOOLEAN : ProcessExamples(ok)
    \/ \E ok \in BOOLEAN : Cleanup(ok)

SpecTatoeba == InitItems /\ [][NextTatoeba]_vars

\* C28: in the Tatoeba import main, cleanup() of the temp directory runs on
\* every exit path, after a successful import and after a failure in
\* clearTables, downloadTatoebaFiles or processExamples: when the process has
\* ended cleanup() has been called, and unless the removal itself failed the
\* temp directory is gone.
C28_CleanupOnEveryExit ==
    tm.pc = "ended" /\ tm.exitCode # "none" =>
        /\ tm.cleanupCalled
        /\ tm.exitCode = "0" => ~tempDir.exists

(***************************************************************************)
(* The shapes route: GET, POST and DELETE /api/shapes/:shapeSlug           *)
(***************************************************************************)
restOfRoute ==
    <<coreVars, notifyVars, streamVars, syncVars, importVars, jmdictVars, kanjiVars,
      pageVars, tatoebaVars>>

Apis == {"sveltekit", "hono"}

\* path parameters: the key of shapeMap, a name no object has, and names
\* every object inherits from Object.prototype
ShapeSlugs == {"items", "users", "constructor", "toString"}
ItemIds == {1, 2}

\* shapeMap[shapeSlug]: a property read on the object literal { items:
\* itemsTable }, which finds inherited properties too
shapeMapLookup(shapeSlug) ==
    IF shapeSlug = "items" THEN "itemsTable"
    ELSE IF shapeSlug \in {"constructor", "toString"} THEN "inherited"
    ELSE "undefined"

\* zValidator('param', z.object({ shapeSlug: z.enum(['items']) }))
validateShape(shapeSlug) == shapeSlug \in {"items"}

\* what the handler does before it reaches its database statement:
\* "400", or "go on" with the table, or "throws" because what the lookup
\* returned is not a table and no statement can be built from it
guard(impl, shapeSlug) ==
    IF impl = "hono"
    THEN IF validateShape(shapeSlug) THEN "go on" ELSE "400"
    ELSE IF shapeMapLookup(shapeSlug) = "undefined" THEN "400"
    ELSE IF shapeMapLookup(shapeSlug) = "itemsTable" THEN "go on"
    ELSE "throws"

Answer(method, shapeSlug, status, touched) ==
    [method |-> method, shapeSlug |-> shapeSlug, status |-> status, touched |-> touched,
     before |-> routeTable]

Served(impl) ==
    /\ requests < MaxRequests
    /\ api \in {"none", impl}
    /\ api' = impl
    /\ requests' = requests + 1

\* GET: select from the table; a database error answers 500
RouteGet(impl, shapeSlug, dbOk) ==
    /\ Served(impl)
    /\ LET g == guard(impl, shapeSlug)
       IN  response' = IF g = "400" THEN Answer("GET", shapeSlug, 400, FALSE)
                       ELSE IF g = "throws" THEN Answer("GET", shapeSlug, 500, FALSE)
                       ELSE Answer("GET", shapeSlug, IF dbOk THEN 200 ELSE 500, TRUE)
    /\ UNCHANGED routeTable
    /\ UNCHANGED restOfRoute

\* POST: insert the body in a transaction; a database error (a duplicate id
\* included) rolls back and answers 500
RoutePost(impl, shapeSlug, id, dbOk) ==
    /\ Served(impl)
    /\ LET g == guard(impl, shapeSlug)
           inserted == g = "go on" /\ dbOk /\ id \notin routeTable
       IN  /\ response' = IF g = "400" THEN Answer("POST", shapeSlug, 400, FALSE)
                          ELSE IF g = "throws" THEN Answer("POST", shapeSlug, 500, FALSE)
                          ELSE Answer("POST", shapeSlug, IF inserted THEN 200 ELSE 500, TRUE)
           /\ routeTable' = IF inserted THEN routeTable \cup {id} ELSE routeTable
    /\ UNCHANGED restOfRoute

\* DELETE: delete every row of the table; a database error answers 500
RouteDelete(impl, shapeSlug, dbOk) ==
    /\ Served(impl)
    /\ LET g == guard(impl, shapeSlug)
       IN  /\ response' = IF g = "400" THEN Answer("DELETE", shapeSlug, 400, FALSE)
                          ELSE IF g = "throws" THEN Answer("DELETE", shapeSlug, 500, FALSE)
                          ELSE Answer("DELETE", shapeSlug, IF dbOk THEN 200 ELSE 500, TRUE)
           /\ routeTable' = IF g = "go on" /\ dbOk THEN {} ELSE routeTable
    /\ UNCHANGED restOfRoute

NextRoute ==
    \/ \E impl \in Apis, shapeSlug \in ShapeSlugs, dbOk \in BOOLEAN :
          RouteGet(impl, shapeSlug, dbOk)
    \/ \E impl \in Apis, shapeSlug \in ShapeSlugs, id \in ItemIds, dbOk \in BOOLEAN :
          RoutePost(impl, shapeSlug, id, dbOk)
    \/ \E impl \in Apis, shapeSlug \in ShapeSlugs, dbOk \in BOOLEAN :
          RouteDelete(impl, shapeSlug, dbOk)

SpecRoute == InitItems /\ [][NextRoute]_vars

\* C30: for a shapeSlug that is not a key of shapeMap the GET, POST and
\* DELETE handlers answer with status 400 and perform no database read or
\* write; the table contents are unchanged by such a request.
C30_UnknownShapeIs400 ==
    response.method # "none" /\ response.shapeSlug # "items" =>
        /\ response.status = 400
        /\ ~response.touched
        /\ routeTable = response.before

====
